---------------------------- MODULE Spec2Model ----------------------------
(***************************************************************************)
(* A model of the render-command queueing and triangle-batching engine of  *)
(* cocos/renderer/CCRenderer.cpp: RenderQueue (five sub-queues, sort,      *)
(* ambient-state save/restore), Renderer (queue table, group stack,        *)
(* addCommand, render, visitRenderQueue, processRenderCommand) and the     *)
(* batching pass drawBatchedTriangles.                                     *)
(*                                                                         *)
(* CCASSERT / CC_ASSERT are modelled as in a development build: a failed   *)
(* assertion stops the process (status = "assert").  An access that is     *)
(* undefined behaviour in C++ (an index outside _renderGroups, top()/pop() *)
(* on an empty stack) ends the run in status = "ub": nothing is claimed    *)
(* about what the process does afterwards.                                 *)
(***************************************************************************)
EXTENDS Integers, Sequences, FiniteSets, TLC

VARIABLES
    renderGroups,            \* _renderGroups: the queue table (1-based here, id = index - 1)
    commandGroupStack,       \* _commandGroupStack, top of stack = last element
    isRendering,             \* _isRendering
    glViewAssigned,          \* _glViewAssigned
    isDepthTestFor2D,        \* _isDepthTestFor2D
    queuedTriangleCommands,  \* _queuedTriangleCommands
    filledVertex,            \* _filledVertex
    filledIndex,             \* _filledIndex
    triBatchesToDrawCapacity,\* _triBatchesToDrawCapacity
    gl,                      \* ambient GL state: depth test, depth write mask, blend, cull face
    sweeps,                  \* the activation records of visitRenderQueue, innermost last
    pc,                      \* where the renderer is: "idle", "sweep", "callback", "clean"
    status,                  \* "ok", "assert", "ub", "overflow"
    scene,                   \* the command objects owned by the scene graph in this run
    drawLog,                 \* the frame in progress: dispatches, draw calls, execute() calls
    scan,                    \* locals of a drawBatchedTriangles pass taken step by step
    createdIds,              \* the values createRenderQueue has returned, in order
    lastOp                   \* the last operation taken and its arguments

vars == << renderGroups, commandGroupStack, isRendering, glViewAssigned,
           isDepthTestFor2D, queuedTriangleCommands, filledVertex, filledIndex,
           triBatchesToDrawCapacity, gl, sweeps, pc, status, scene, drawLog,
           scan, createdIds, lastOp >>

-----------------------------------------------------------------------------
(* Bounds of the model *)

\* largest number of queues in the queue table
MaxQueues == 2

\* largest depth of the group stack
MaxStack == 2

\* largest number of queues in the queue table in SpecTable
MaxTable == 3

\* largest number of commands pushed on the queue of SpecQueue
MaxQueueLen == 3

\* largest number of staged Triangles commands in SpecBatch
MaxStaged == 3

\* largest number of staged Triangles commands in SpecFill
MaxFill == 3

\* largest number of staged Triangles commands in SpecGrow
MaxGrowStaged == 700

\* width in bits of an element of the index staging array in SpecFill (scaled
\* down from the 16 bits of unsigned short)
IndexBits == 4

\* capacity of the vertex staging array (scaled down)
VBO_SIZE == 12

\* capacity of the index staging array (scaled down)
INDEX_VBO_SIZE == 18

\* nesting of visitRenderQueue after which the model gives up: with more
\* activations than queues one queue is being swept inside its own sweep
MaxDepth == MaxQueues + 1

-----------------------------------------------------------------------------
(* Program constants *)

DEFAULT_RENDER_QUEUE == 0

TriBatchesInitialCapacity == 500

\* the value prevMaterialID starts from and a skip-batching command leaves behind
NoMaterialID == -1

QUEUE_GROUP ==
    {"GLOBALZ_NEG", "OPAQUE_3D", "TRANSPARENT_3D", "GLOBALZ_ZERO", "GLOBALZ_POS"}

\* a visit that takes the Global-Z = 0 sub-queue first
VisitOrderZeroFirst ==
    << "GLOBALZ_ZERO", "GLOBALZ_NEG", "OPAQUE_3D", "TRANSPARENT_3D", "GLOBALZ_POS" >>

\* the order in which visitRenderQueue goes through the sub-queues
VisitOrder ==
    << "GLOBALZ_NEG", "OPAQUE_3D", "TRANSPARENT_3D", "GLOBALZ_ZERO", "GLOBALZ_POS" >>

CommandTypes ==
    {"TRIANGLES_COMMAND", "GROUP_COMMAND", "CUSTOM_COMMAND", "BATCH_COMMAND",
     "PRIMITIVE_COMMAND", "UNKNOWN_COMMAND"}

-----------------------------------------------------------------------------
(* Commands.  id names the command object; z is getGlobalOrder(); mat, skip,
   vc, ic are getMaterialID(), isSkipBatching(), getVertexCount(),
   getIndexCount() of a Triangles command; target is getRenderQueueID() of a
   Group command; sub3D names the 3D sub-queue a command is appended to
   directly ("none": it goes through RenderQueue::push_back). *)

Command(id, type, z, mat, skip, vc, ic, target, sub3D) ==
    [id |-> id, type |-> type, z |-> z, mat |-> mat, skip |-> skip,
     vc |-> vc, ic |-> ic, target |-> target, sub3D |-> sub3D]

Tri(id, z, mat, skip, vc, ic) ==
    Command(id, "TRIANGLES_COMMAND", z, mat, skip, vc, ic, 0, "none")

Quad(id, z, mat) == Tri(id, z, mat, FALSE, 4, 6)

Grp(id, z, target) == Command(id, "GROUP_COMMAND", z, 0, FALSE, 0, 0, target, "none")

Other(id, type, z) == Command(id, type, z, 0, FALSE, 0, 0, 0, "none")

In3D(cmd, bucket) == [cmd EXCEPT !.sub3D = bucket]

NoCmd == Command(0, "UNKNOWN_COMMAND", 0, 0, FALSE, 0, 0, 0, "none")

-----------------------------------------------------------------------------
(* Sequence helpers *)

Range(s) == {s[i] : i \in 1..Len(s)}

RECURSIVE SumOver(_, _)
SumOver(s, field) ==
    IF s = << >> THEN 0 ELSE Head(s)[field] + SumOver(Tail(s), field)

Count(x, s) == Cardinality({i \in 1..Len(s) : s[i] = x})

SameBag(s, t) ==
    /\ Len(s) = Len(t)
    /\ \A x \in Range(s) \cup Range(t) : Count(x, s) = Count(x, t)

RECURSIVE AsSeq(_, _)
AsSeq(f, n) == IF n = 0 THEN << >> ELSE Append(AsSeq(f, n - 1), f[n])

PermutationsOf(n) ==
    {p \in [1..n -> 1..n] : \A i, j \in 1..n : p[i] = p[j] => i = j}

-----------------------------------------------------------------------------
(* RenderQueue *)

\* compareRenderCommand with the comparison turned round
compareRenderCommandReversed(a, b) == a.z > b.z

\* compareRenderCommand (lines 50-53)
compareRenderCommand(a, b) == a.z < b.z

\* RenderQueue::RenderQueue: five empty sub-queues.  The saved-state members
\* are not initialised by the constructor; they are written by
\* saveRenderState before restoreRenderState reads them.
EmptyQueue ==
    [commands |-> [g \in QUEUE_GROUP |-> << >>],
     isDepthEnabled |-> FALSE, isCullEnabled |-> FALSE, isDepthWrite |-> FALSE]

\* the choice of push_back with zero counted as negative
GroupOfZeroAsNegative(command) ==
    IF command.z <= 0 THEN "GLOBALZ_NEG"
    ELSE "GLOBALZ_POS"

\* the sub-queue RenderQueue::push_back chooses for a command (lines 63-75)
GroupOf(command) ==
    IF command.z < 0 THEN "GLOBALZ_NEG"
    ELSE IF command.z > 0 THEN "GLOBALZ_POS"
    ELSE "GLOBALZ_ZERO"

\* RenderQueue::push_back
push_back(queue, command) ==
    [queue EXCEPT !.commands[GroupOf(command)] = Append(@, command)]

\* a 3D submission path appends to getSubQueue(group) directly
push_direct(queue, group, command) ==
    [queue EXCEPT !.commands[group] = Append(@, command)]

\* RenderQueue::size
size(queue) ==
    Len(queue.commands["GLOBALZ_NEG"]) + Len(queue.commands["OPAQUE_3D"])
    + Len(queue.commands["TRANSPARENT_3D"]) + Len(queue.commands["GLOBALZ_ZERO"])
    + Len(queue.commands["GLOBALZ_POS"])

\* the results std::sort(begin, end, compareRenderCommand) may leave: every
\* arrangement of the same elements in which no element is ordered before
\* an earlier one (std::sort does not say how equal keys are arranged)
SortResults(s) ==
    {t \in {AsSeq([i \in 1..Len(s) |-> s[p[i]]], Len(s)) : p \in PermutationsOf(Len(s))} :
        \A i, j \in 1..Len(s) : i < j => ~compareRenderCommand(t[j], t[i])}

\* a sort that also sorts the GLOBALZ_ZERO, OPAQUE_3D and TRANSPARENT_3D
\* sub-queues
SortedQueuesAll(queue) ==
    {[queue EXCEPT !.commands = c] :
        c \in {c \in [QUEUE_GROUP -> UNION {SortResults(queue.commands[g]) :
                                               g \in QUEUE_GROUP}] :
                  \A g \in QUEUE_GROUP : c[g] \in SortResults(queue.commands[g])}}

\* RenderQueue::sort (lines 89-94): the queues it may leave
SortedQueues(queue) ==
    {[queue EXCEPT !.commands["GLOBALZ_NEG"] = n, !.commands["GLOBALZ_POS"] = p] :
        n \in SortResults(queue.commands["GLOBALZ_NEG"]),
        p \in SortResults(queue.commands["GLOBALZ_POS"])}

\* RenderQueue::clear
clear(queue) == [queue EXCEPT !.commands = [g \in QUEUE_GROUP |-> << >>]]

\* RenderQueue::saveRenderState under ambient state g
saveRenderState(queue, g) ==
    [queue EXCEPT !.isDepthEnabled = g.depthTest,
                  !.isCullEnabled = g.cull,
                  !.isDepthWrite = g.depthWrite]

\* RenderQueue::restoreRenderState: the ambient state it leaves
restoreRenderState(queue, g) ==
    [g EXCEPT !.cull = queue.isCullEnabled,
              !.depthTest = queue.isDepthEnabled,
              !.depthWrite = queue.isDepthWrite]

-----------------------------------------------------------------------------
(* Renderer::drawBatchedTriangles *)

\* one entry of _triBatchesToDraw; merged lists the ids of the commands whose
\* indices the entry covers (kept for the properties, the code has no such field)
Descriptor(offset, indicesToDraw, cmd, merged) ==
    [offset |-> offset, indicesToDraw |-> indicesToDraw, cmd |-> cmd,
     merged |-> merged]

\* the locals of drawBatchedTriangles before its loop (lines 633-646): it is
\* the position of the loop in _queuedTriangleCommands, tri[k + 1] is
\* _triBatchesToDraw[k] for k = 0 .. batchesTotal
ScanStart(capacity) ==
    [it |-> 1, filledVertex |-> 0, filledIndex |-> 0,
     tri |-> << Descriptor(0, 0, NoCmd, << >>) >>,
     batchesTotal |-> 0, prevMaterialID |-> NoMaterialID, firstCommand |-> TRUE,
     capacity |-> capacity, ok |-> TRUE]

\* the largest power of two that is not above n (n from 1 to 2^21 - 1)
Binade(n) == CHOOSE p \in {2 ^ k : k \in 0..20} : p <= n /\ n < 2 * p

\* a descriptor array that is never enlarged
GrowCapacityNone(capacity) == capacity

\* _triBatchesToDrawCapacity *= 1.4 (line 679): the int becomes a double, is
\* multiplied by the double nearest to 1.4, which is 1.4 - 0.4 * 2^-52, and
\* the product, rounded to a double, is truncated to int.  The product is
\* 1.4 * capacity less 0.4 * capacity * 2^-52: when 1.4 * capacity is not an
\* integer its integer part is kept; when it is an integer (capacity a
\* multiple of 5) the rounding gives it back unless the product is nearer to
\* the double below it, which is the case when 0.4 * capacity is more than
\* half the binade of the integer, and the truncation then gives one less
\* (700 gives 979).
GrowCapacity(capacity) ==
    LET n == (capacity * 14) \div 10
    IN  IF capacity % 5 = 0 /\ 4 * capacity > 5 * Binade(n) THEN n - 1 ELSE n

\* line 655, "in the same batch ?", with a comparison that forgets the flag
SameBatchIgnoringSkip(st, cmd) ==
    st.prevMaterialID = cmd.mat \/ st.firstCommand

\* line 655, "in the same batch ?"
SameBatch(st, cmd) ==
    ~cmd.skip /\ (st.prevMaterialID = cmd.mat \/ st.firstCommand)

\* lines 649, 673-674 and 683 without the reset of line 674
CarriedMaterialIDNoReset(st, cmd) == cmd.mat

\* the material id the iteration leaves in prevMaterialID (lines 649, 673-674
\* and 683): a command that is not batchable leaves -1
CarriedMaterialID(st, cmd) ==
    IF ~SameBatch(st, cmd) /\ cmd.skip THEN NoMaterialID ELSE cmd.mat

\* the number of values of an element of _indices (unsigned short)
IndexModulus == 2 ^ IndexBits

\* a command of the staged list with the index array getIndices() returns
WithIndices(cmd, indices) ==
    [f \in DOMAIN cmd \cup {"indices"} |->
        IF f = "indices" THEN indices ELSE cmd[f]]

\* an index copied without the vertices staged before its command
WrittenIndexNoOffset(filled, index) == index % IndexModulus

\* the value line 619 stores in an element of _indices: the sum of
\* _filledVertex and the command's index, converted to unsigned short
WrittenIndex(filled, index) == (filled + index) % IndexModulus

\* the locals of a pass before its first fillVerticesAndIndices (lines
\* 633-634), indices being the filled part of _indices
FillStart == [it |-> 1, filledVertex |-> 0, filledIndex |-> 0, indices |-> << >>]

\* Renderer::fillVerticesAndIndices (lines 604-624) on cmd
fillVerticesAndIndices(st, cmd) ==
    [it |-> st.it + 1,
     filledVertex |-> st.filledVertex + cmd.vc,
     filledIndex |-> st.filledIndex + cmd.ic,
     indices |-> st.indices \o
                 [i \in 1..cmd.ic |-> WrittenIndex(st.filledVertex, cmd.indices[i])]]

\* a new entry that starts where the previous one starts
NextOffsetNotAdvanced(cur) == cur.offset

\* the offset of a new entry of _triBatchesToDraw after entry cur (line 665)
NextOffset(cur) == cur.offset + cur.indicesToDraw

\* one iteration of the loop of drawBatchedTriangles (lines 646-685) on cmd
BatchStep(st, cmd) ==
    LET sameBatch == SameBatch(st, cmd)
        cur == st.tri[st.batchesTotal + 1]
        \* CC_ASSERT(firstCommand || batch's cmd material == cmd material)
        logicOk == ~sameBatch \/ st.firstCommand \/ cur.cmd.mat = cmd.mat
        total == IF sameBatch \/ st.firstCommand THEN st.batchesTotal
                 ELSE st.batchesTotal + 1
        tri == IF sameBatch
               THEN [st.tri EXCEPT ![total + 1] =
                        Descriptor(@.offset, @.indicesToDraw + cmd.ic, cmd,
                                   Append(@.merged, cmd.id))]
               ELSE IF st.firstCommand
               THEN [st.tri EXCEPT ![1] =
                        Descriptor(@.offset, cmd.ic, cmd, << cmd.id >>)]
               ELSE Append(st.tri,
                        Descriptor(NextOffset(cur), cmd.ic, cmd, << cmd.id >>))
    IN  [it |-> st.it + 1,
         filledVertex |-> st.filledVertex + cmd.vc,
         filledIndex |-> st.filledIndex + cmd.ic,
         tri |-> tri,
         batchesTotal |-> total,
         prevMaterialID |-> CarriedMaterialID(st, cmd),
         firstCommand |-> FALSE,
         capacity |-> IF total + 1 >= st.capacity THEN GrowCapacity(st.capacity)
                      ELSE st.capacity,
         ok |-> st.ok /\ logicOk]

\* the loop of drawBatchedTriangles over the staged commands
RECURSIVE BatchScan(_, _)
BatchScan(st, cmds) ==
    IF st.it > Len(cmds) \/ ~st.ok THEN st
    ELSE BatchScan(BatchStep(st, cmds[st.it]), cmds)

\* a draw loop that runs from the last entry to the first
DrawCallsDescending(st) ==
    [k \in 1..(st.batchesTotal + 1) |->
        LET e == st.tri[st.batchesTotal + 2 - k]
        IN  [kind |-> "draw", mat |-> e.cmd.mat, offset |-> e.offset,
             count |-> e.indicesToDraw, cmds |-> e.merged]]

\* the draw loop (lines 741-748): one glDrawElements per entry, after
\* useMaterial() of the entry's command
DrawCalls(st) ==
    [k \in 1..(st.batchesTotal + 1) |->
        [kind |-> "draw", mat |-> st.tri[k].cmd.mat, offset |-> st.tri[k].offset,
         count |-> st.tri[k].indicesToDraw, cmds |-> st.tri[k].merged]]

-----------------------------------------------------------------------------
(* Renderer: state after construction, and the scenes of a run *)

Ambient(depthTest, depthWrite, blend, cull) ==
    [depthTest |-> depthTest, depthWrite |-> depthWrite, blend |-> blend,
     cull |-> cull]

\* the ambient GL state the application leaves before it uses the renderer
AmbientInit == {Ambient(FALSE, FALSE, FALSE, FALSE), Ambient(TRUE, TRUE, TRUE, TRUE)}

Op(op, id, cmd) == [op |-> op, id |-> id, cmd |-> cmd]

\* scenes of Spec: the routing of commands and the guard against reentrancy
RouteScenes ==
    { {Quad(1, 0, 1), Other(2, "CUSTOM_COMMAND", 1)},
      {Grp(1, 0, 1), Other(2, "UNKNOWN_COMMAND", 0)} }

\* scenes of SpecSweep: what a sweep does with the commands it finds
SweepScenes ==
    { {Quad(1, 0, 1), Other(2, "CUSTOM_COMMAND", 0), Quad(3, 0, 1)},
      {Quad(1, -1, 1), Quad(2, 0, 1), Quad(3, 1, 1)},
      {Quad(1, -1, 1), In3D(Quad(2, 0, 1), "OPAQUE_3D"),
       In3D(Quad(3, 0, 1), "TRANSPARENT_3D")},
      {In3D(Other(1, "BATCH_COMMAND", 0), "OPAQUE_3D"),
       In3D(Other(2, "PRIMITIVE_COMMAND", 0), "TRANSPARENT_3D"), Quad(3, 0, 2)},
      {Grp(1, 0, 1), Quad(2, 0, 1), Other(3, "CUSTOM_COMMAND", 1)},
      {In3D(Grp(1, 0, 1), "OPAQUE_3D"), In3D(Other(2, "CUSTOM_COMMAND", 0), "OPAQUE_3D"),
       Quad(3, 0, 1)},
      {Grp(1, -1, 0), Quad(2, 0, 1)},
      {Grp(1, 0, 1), Grp(2, 0, 0)},
      {Tri(1, 0, 1, FALSE, VBO_SIZE - 4, INDEX_VBO_SIZE - 6), Quad(2, 0, 1),
       Quad(3, 0, 1)},
      {Tri(1, 0, 1, FALSE, VBO_SIZE, INDEX_VBO_SIZE), Quad(2, 0, 1)},
      {Tri(1, 0, 1, FALSE, VBO_SIZE + 1, 3), Quad(2, 1, 1)},
      {Tri(1, 0, 1, TRUE, 4, 6), Quad(2, 0, 1), Quad(3, 0, 2)},
      {In3D(Other(1, "UNKNOWN_COMMAND", 0), "OPAQUE_3D"), Quad(2, -2, 1),
       Quad(3, -1, 1)} }

\* Renderer::Renderer (lines 174-200)
Constructed ==
    /\ renderGroups = << EmptyQueue >>
    /\ commandGroupStack = << DEFAULT_RENDER_QUEUE >>
    /\ isRendering = FALSE
    /\ glViewAssigned = FALSE
    /\ isDepthTestFor2D = FALSE
    /\ queuedTriangleCommands = << >>
    /\ filledVertex = 0
    /\ filledIndex = 0
    /\ triBatchesToDrawCapacity = TriBatchesInitialCapacity
    /\ sweeps = << >>
    /\ pc = "idle"
    /\ status = "ok"
    /\ drawLog = << >>
    /\ scan = ScanStart(TriBatchesInitialCapacity)
    /\ createdIds = << >>
    /\ lastOp = Op("Renderer", 0, 0)

Init ==
    /\ Constructed
    /\ gl \in AmbientInit
    /\ scene \in RouteScenes

InitSweep ==
    /\ Constructed
    /\ gl \in AmbientInit
    /\ scene \in SweepScenes

-----------------------------------------------------------------------------
(* Renderer: the operations called by the application *)

\* the commands some queue holds
Submitted ==
    UNION {Range(renderGroups[k].commands[g]) :
              k \in 1..Len(renderGroups), g \in QUEUE_GROUP}

\* the application calls the renderer between frames or from the callback
\* of a Custom, Batch or Primitive command
Callable == status = "ok" /\ pc \in {"idle", "callback"}

\* addCommand(command, renderQueue) without its first assertion
AddOutcomeUnguarded(command, renderQueue) ==
    IF renderQueue < 0 \/ command.type = "UNKNOWN_COMMAND"
    THEN [status |-> "assert", groups |-> renderGroups]
    ELSE IF renderQueue >= Len(renderGroups)
    THEN [status |-> "ub", groups |-> renderGroups]
    ELSE [status |-> "ok",
          groups |-> [renderGroups EXCEPT ![renderQueue + 1] = push_back(@, command)]]

\* addCommand(command, renderQueue) that always takes the default queue
AddOutcomeDefaultQueue(command, renderQueue) ==
    IF isRendering \/ renderQueue < 0 \/ command.type = "UNKNOWN_COMMAND"
    THEN [status |-> "assert", groups |-> renderGroups]
    ELSE IF renderQueue >= Len(renderGroups)
    THEN [status |-> "ub", groups |-> renderGroups]
    ELSE [status |-> "ok",
          groups |-> [renderGroups EXCEPT ![DEFAULT_RENDER_QUEUE + 1] =
                         push_back(@, command)]]

\* Renderer::addCommand(command, renderQueue) (lines 321-328): the status and
\* the queue table it leaves
AddOutcome(command, renderQueue) ==
    IF isRendering \/ renderQueue < 0 \/ command.type = "UNKNOWN_COMMAND"
    THEN [status |-> "assert", groups |-> renderGroups]
    ELSE IF renderQueue >= Len(renderGroups)
    THEN [status |-> "ub", groups |-> renderGroups]
    ELSE [status |-> "ok",
          groups |-> [renderGroups EXCEPT ![renderQueue + 1] = push_back(@, command)]]

AddCommandTo(command, renderQueue) ==
    /\ Callable
    /\ command \in scene \ Submitted
    /\ command.sub3D = "none"
    /\ status' = AddOutcome(command, renderQueue).status
    /\ renderGroups' = AddOutcome(command, renderQueue).groups
    /\ lastOp' = Op("addCommandTo", renderQueue, command.id)
    /\ UNCHANGED << commandGroupStack, isRendering, glViewAssigned, isDepthTestFor2D,
                    queuedTriangleCommands, filledVertex, filledIndex,
                    triBatchesToDrawCapacity, gl, sweeps, pc,
                    scene, createdIds, drawLog, scan >>

\* Renderer::addCommand(command) (lines 315-319).  top() of an empty stack is
\* undefined: the read faults, or it yields some integer and the two-argument
\* addCommand goes on with it, whose first assertion fails during a frame.
AddCommand(command) ==
    /\ Callable
    /\ command \in scene \ Submitted
    /\ command.sub3D = "none"
    /\ IF commandGroupStack = << >>
       THEN /\ status' \in (IF isRendering THEN {"ub", "assert"} ELSE {"ub"})
            /\ UNCHANGED renderGroups
       ELSE LET renderQueue == commandGroupStack[Len(commandGroupStack)]
            IN  /\ status' = AddOutcome(command, renderQueue).status
                /\ renderGroups' = AddOutcome(command, renderQueue).groups
    /\ lastOp' = Op("addCommand", 0, command.id)
    /\ UNCHANGED << commandGroupStack, isRendering, glViewAssigned, isDepthTestFor2D,
                    queuedTriangleCommands, filledVertex, filledIndex,
                    triBatchesToDrawCapacity, gl, sweeps, pc,
                    scene, createdIds, drawLog, scan >>

\* a 3D submission path: the command is appended to the Opaque3D or
\* Transparent3D sub-queue of a queue, not through RenderQueue::push_back
AddDirect(command, renderQueue) ==
    /\ status = "ok" /\ pc = "idle"
    /\ command \in scene \ Submitted
    /\ command.sub3D # "none"
    /\ renderQueue \in 0..(Len(renderGroups) - 1)
    /\ renderGroups' = [renderGroups EXCEPT ![renderQueue + 1] =
                            push_direct(@, command.sub3D, command)]
    /\ lastOp' = Op("addDirect", renderQueue, command.id)
    /\ UNCHANGED << commandGroupStack, isRendering, glViewAssigned, isDepthTestFor2D,
                    queuedTriangleCommands, filledVertex, filledIndex,
                    triBatchesToDrawCapacity, gl, sweeps, pc, status,
                    scene, createdIds, drawLog,
                    scan >>

\* Renderer::pushGroup (lines 330-334)
PushGroup(renderQueueID) ==
    /\ Callable
    /\ Len(commandGroupStack) < MaxStack
    /\ IF isRendering
       THEN status' = "assert" /\ UNCHANGED commandGroupStack
       ELSE status' = "ok" /\ commandGroupStack' = Append(commandGroupStack, renderQueueID)
    /\ lastOp' = Op("pushGroup", renderQueueID, 0)
    /\ UNCHANGED << renderGroups, isRendering, glViewAssigned, isDepthTestFor2D,
                    queuedTriangleCommands, filledVertex, filledIndex,
                    triBatchesToDrawCapacity, gl, sweeps, pc,
                    scene, createdIds, drawLog, scan >>

\* Renderer::popGroup (lines 336-340)
PopGroup ==
    /\ Callable
    /\ IF isRendering
       THEN status' = "assert" /\ UNCHANGED commandGroupStack
       ELSE IF commandGroupStack = << >>
       THEN status' = "ub" /\ UNCHANGED commandGroupStack
       ELSE /\ status' = "ok"
            /\ commandGroupStack' = SubSeq(commandGroupStack, 1, Len(commandGroupStack) - 1)
    /\ lastOp' = Op("popGroup", 0, 0)
    /\ UNCHANGED << renderGroups, isRendering, glViewAssigned, isDepthTestFor2D,
                    queuedTriangleCommands, filledVertex, filledIndex,
                    triBatchesToDrawCapacity, gl, sweeps, pc,
                    scene, createdIds, drawLog, scan >>

\* Renderer::createRenderQueue (lines 342-347).  It has no guard against a
\* frame in progress: called from a callback it may reallocate _renderGroups
\* under the references visitRenderQueue holds.
CreateRenderQueue ==
    /\ Callable
    /\ renderGroups' = Append(renderGroups, EmptyQueue)
    /\ createdIds' = Append(createdIds, Len(renderGroups') - 1)
    /\ status' \in (IF pc = "callback" THEN {"ok", "ub"} ELSE {"ok"})
    /\ lastOp' = Op("createRenderQueue", Len(renderGroups') - 1, 0)
    /\ UNCHANGED << commandGroupStack, isRendering, glViewAssigned, isDepthTestFor2D,
                    queuedTriangleCommands, filledVertex, filledIndex,
                    triBatchesToDrawCapacity, gl, sweeps, pc, scene, drawLog, scan >>

\* Renderer::initGLView (lines 221-235)
InitGLView ==
    /\ status = "ok" /\ pc = "idle"
    /\ ~glViewAssigned
    /\ glViewAssigned' = TRUE
    /\ lastOp' = Op("initGLView", 0, 0)
    /\ UNCHANGED << renderGroups, commandGroupStack, isRendering, isDepthTestFor2D,
                    queuedTriangleCommands, filledVertex, filledIndex,
                    triBatchesToDrawCapacity, gl, sweeps, pc, status,
                    scene, createdIds, drawLog,
                    scan >>

\* Renderer::setDepthTest (lines 585-602)
SetDepthTest(enable) ==
    /\ status = "ok" /\ pc = "idle"
    /\ isDepthTestFor2D # enable \/ gl.depthTest # enable
    /\ gl' = [gl EXCEPT !.depthTest = enable]
    /\ isDepthTestFor2D' = enable
    /\ lastOp' = Op("setDepthTest", 0, 0)
    /\ UNCHANGED << renderGroups, commandGroupStack, isRendering, glViewAssigned,
                    queuedTriangleCommands, filledVertex, filledIndex,
                    triBatchesToDrawCapacity, sweeps, pc, status,
                    scene, createdIds, drawLog, scan >>

-----------------------------------------------------------------------------
(* Renderer: one frame *)

\* an activation of visitRenderQueue on queue q: b is the position in
\* VisitOrder of the sub-queue being processed (0 before the first, 6 after
\* the last), i the position in it of the next command.  Kept for the
\* properties: entry, the ambient state the activation found, done, the
\* commands it has passed to processRenderCommand with their sub-queues, and
\* from, the number of events the frame had when the activation began
Frame(q, b, i, entry) ==
    [q |-> q, b |-> b, i |-> i, entry |-> entry, done |-> << >>, from |-> 0]

Top == sweeps[Len(sweeps)]

\* the sub-queue of queue q at position b of VisitOrder
SubQueue(q, b) == renderGroups[q + 1].commands[VisitOrder[b]]

\* the ambient state visitRenderQueue sets before it processes a sub-queue
\* (lines 420-432, 448-451, 466-469, 484-496, 511-523)
BucketState(group) ==
    IF group = "OPAQUE_3D" THEN Ambient(TRUE, TRUE, FALSE, TRUE)
    ELSE IF group = "TRANSPARENT_3D" THEN Ambient(TRUE, FALSE, TRUE, TRUE)
    ELSE Ambient(isDepthTestFor2D, isDepthTestFor2D, TRUE, FALSE)

\* a drawBatchedTriangles that issues its draw calls and keeps what is staged
DrawBatchedTrianglesKeepsStaged ==
    LET st == BatchScan(ScanStart(triBatchesToDrawCapacity), queuedTriangleCommands)
    IN  [queued |-> queuedTriangleCommands, filledVertex |-> filledVertex,
         filledIndex |-> filledIndex, capacity |-> st.capacity,
         calls |-> IF queuedTriangleCommands = << >> THEN << >> ELSE DrawCalls(st),
         ok |-> TRUE]

\* Renderer::drawBatchedTriangles (lines 626-765) from the current state: what
\* it leaves staged, the capacity of the descriptor array, the draw calls it
\* issues and whether its assertion held
DrawBatchedTriangles ==
    LET st == BatchScan(ScanStart(triBatchesToDrawCapacity), queuedTriangleCommands)
    IN  IF queuedTriangleCommands = << >>
        THEN [queued |-> << >>, filledVertex |-> filledVertex,
              filledIndex |-> filledIndex, capacity |-> triBatchesToDrawCapacity,
              calls |-> << >>, ok |-> TRUE]
        ELSE IF ~st.ok
        THEN [queued |-> queuedTriangleCommands, filledVertex |-> st.filledVertex,
              filledIndex |-> st.filledIndex, capacity |-> st.capacity,
              calls |-> << >>, ok |-> FALSE]
        ELSE [queued |-> << >>, filledVertex |-> 0, filledIndex |-> 0,
              capacity |-> st.capacity, calls |-> DrawCalls(st), ok |-> TRUE]

\* a flush() that does nothing
FlushSkipped ==
    [queued |-> queuedTriangleCommands, filledVertex |-> filledVertex,
     filledIndex |-> filledIndex, capacity |-> triBatchesToDrawCapacity,
     calls |-> << >>, ok |-> TRUE]

\* the flush() that opens the Group, Custom, Batch and Primitive branches of
\* processRenderCommand (lines 377, 385, 392, 399)
FlushBeforeCommand == DrawBatchedTriangles

\* the flush() that closes a non-empty sub-queue in visitRenderQueue (lines
\* 438, 457, 475, 502, 529)
FlushAfterSubQueue == DrawBatchedTriangles

\* the state a drawBatchedTriangles with outcome draw leaves
Flush(draw) ==
    /\ queuedTriangleCommands' = draw.queued
    /\ filledVertex' = draw.filledVertex
    /\ filledIndex' = draw.filledIndex
    /\ triBatchesToDrawCapacity' = draw.capacity

\* Renderer::render up to the call of visitRenderQueue (lines 535-551) and the
\* saveRenderState that opens it (line 412)
Render ==
    /\ status = "ok" /\ pc = "idle"
    /\ isRendering' = TRUE
    /\ IF glViewAssigned
       THEN /\ \E sorted \in [1..Len(renderGroups) ->
                                 UNION {SortedQueues(renderGroups[k]) :
                                           k \in 1..Len(renderGroups)}] :
                 /\ \A k \in 1..Len(renderGroups) :
                        sorted[k] \in SortedQueues(renderGroups[k])
                 /\ renderGroups' =
                        AsSeq([k \in 1..Len(renderGroups) |->
                                  IF k = 1 THEN saveRenderState(sorted[k], gl)
                                  ELSE sorted[k]], Len(renderGroups))
            /\ sweeps' = << Frame(0, 0, 1, gl) >>
            /\ pc' = "sweep"
       ELSE /\ pc' = "clean"
            /\ UNCHANGED << renderGroups, sweeps >>
    /\ lastOp' = Op("render", 0, 0)
    /\ UNCHANGED << commandGroupStack, glViewAssigned, isDepthTestFor2D,
                    queuedTriangleCommands, filledVertex, filledIndex,
                    triBatchesToDrawCapacity, gl, status,
                    scene, createdIds, drawLog, scan >>

\* a visit that does not skip the empty sub-queues
LaterAll(q, b) == (b + 1)..5

\* the positions after b of the sub-queues of queue q that hold commands
LaterNonEmpty(q, b) == {n \in (b + 1)..5 : Len(SubQueue(q, n)) > 0}

Min(S) == CHOOSE x \in S : \A y \in S : x <= y

\* visitRenderQueue between two sub-queues: the flush() that closes a
\* non-empty sub-queue, the tests that skip the empty ones, and the ambient
\* state set for the next non-empty one
VisitNextSubQueue ==
    /\ status = "ok" /\ pc = "sweep"
    /\ Top.b <= 5
    /\ IF Top.b = 0 THEN TRUE ELSE Top.i > Len(SubQueue(Top.q, Top.b))
    /\ LET closing == Top.b > 0
           draw == FlushAfterSubQueue
           later == LaterNonEmpty(Top.q, Top.b)
       IN  IF closing /\ ~draw.ok
           THEN /\ status' = "assert"
                /\ UNCHANGED << queuedTriangleCommands, filledVertex, filledIndex,
                                triBatchesToDrawCapacity, gl, sweeps, drawLog >>
           ELSE /\ status' = "ok"
                /\ IF closing
                   THEN Flush(draw) /\ drawLog' = drawLog \o draw.calls
                   ELSE UNCHANGED << queuedTriangleCommands, filledVertex, filledIndex,
                                     triBatchesToDrawCapacity, drawLog >>
                /\ IF later = {}
                   THEN /\ sweeps' = [sweeps EXCEPT ![Len(sweeps)].b = 6]
                        /\ UNCHANGED gl
                   ELSE /\ sweeps' = [sweeps EXCEPT ![Len(sweeps)].b = Min(later),
                                                    ![Len(sweeps)].i = 1]
                        /\ gl' = BucketState(VisitOrder[Min(later)])
    /\ lastOp' = Op("visitNextSubQueue", Top.q, 0)
    /\ UNCHANGED << renderGroups, commandGroupStack, isRendering, glViewAssigned,
                    isDepthTestFor2D, pc, scene, createdIds, scan >>

\* the end of visitRenderQueue: restoreRenderState (line 532) and the return
\* to the caller, processRenderCommand of a Group command or render
FinishVisit ==
    /\ status = "ok" /\ pc = "sweep"
    /\ Top.b = 6
    /\ gl' = restoreRenderState(renderGroups[Top.q + 1], gl)
    /\ sweeps' = SubSeq(sweeps, 1, Len(sweeps) - 1)
    /\ pc' = IF Len(sweeps) = 1 THEN "clean" ELSE "sweep"
    /\ lastOp' = Op("finishVisit", Top.q, 0)
    /\ UNCHANGED << renderGroups, commandGroupStack, isRendering, glViewAssigned,
                    isDepthTestFor2D, queuedTriangleCommands, filledVertex, filledIndex,
                    triBatchesToDrawCapacity, status, scene, createdIds, drawLog, scan >>


\* the test "flush own queue when buffer is full" of processRenderCommand
\* (line 363)
BufferFull(command) ==
    \/ filledVertex + command.vc > VBO_SIZE
    \/ filledIndex + command.ic > INDEX_VBO_SIZE

\* the two assertions made when the buffer is full (lines 365-366)
CommandFits(command) ==
    /\ command.vc >= 0 /\ command.vc < VBO_SIZE
    /\ command.ic >= 0 /\ command.ic < INDEX_VBO_SIZE

\* a dispatch that takes an unknown command for a command that draws by itself
ExecutedTypesWithUnknown ==
    {"CUSTOM_COMMAND", "BATCH_COMMAND", "PRIMITIVE_COMMAND", "UNKNOWN_COMMAND"}

\* the command types whose branch of processRenderCommand calls flush() and
\* then execute() (lines 383-403); any type but these, Triangles and Group
\* falls to the last branch, which reports it (lines 404-407)
ExecutedTypes == {"CUSTOM_COMMAND", "BATCH_COMMAND", "PRIMITIVE_COMMAND"}

\* Renderer::processRenderCommand (lines 349-408) on the next command of the
\* sub-queue being processed.  A Group command opens an activation of
\* visitRenderQueue on its queue (saveRenderState, line 412); a Custom, Batch
\* or Primitive command enters its execute().
ProcessRenderCommand ==
    /\ status = "ok" /\ pc = "sweep"
    /\ Top.b \in 1..5
    /\ Top.i <= Len(SubQueue(Top.q, Top.b))
    /\ LET command == SubQueue(Top.q, Top.b)[Top.i]
           draw == DrawBatchedTriangles
           barrier == FlushBeforeCommand
           dispatch == [kind |-> "dispatch", cmd |-> command.id, type |-> command.type]
           advanced == [sweeps EXCEPT
                           ![Len(sweeps)].i = @ + 1,
                           ![Len(sweeps)].done =
                               Append(@, [group |-> VisitOrder[Top.b],
                                          id |-> command.id])]
       IN  /\ lastOp' = Op("processRenderCommand", Top.q, command.id)
           /\ IF command.type = "TRIANGLES_COMMAND"
              THEN LET full == BufferFull(command)
                       fits == CommandFits(command)
                   IN  IF full /\ (~fits \/ ~draw.ok)
                       THEN /\ status' = "assert"
                            /\ UNCHANGED << renderGroups, queuedTriangleCommands,
                                            filledVertex, filledIndex,
                                            triBatchesToDrawCapacity, sweeps, pc,
                                            drawLog >>
                       ELSE /\ status' = "ok"
                            /\ queuedTriangleCommands' =
                                   Append(IF full THEN draw.queued
                                          ELSE queuedTriangleCommands, command)
                            /\ filledIndex' =
                                   (IF full THEN draw.filledIndex ELSE filledIndex)
                                   + command.ic
                            /\ filledVertex' =
                                   (IF full THEN draw.filledVertex ELSE filledVertex)
                                   + command.vc
                            /\ triBatchesToDrawCapacity' =
                                   IF full THEN draw.capacity
                                   ELSE triBatchesToDrawCapacity
                            /\ drawLog' = (IF full THEN drawLog \o draw.calls
                                           ELSE drawLog) \o << dispatch >>
                            /\ sweeps' = advanced
                            /\ UNCHANGED << renderGroups, pc >>
              ELSE IF command.type = "GROUP_COMMAND"
              THEN IF ~barrier.ok
                   THEN /\ status' = "assert"
                        /\ UNCHANGED << renderGroups, queuedTriangleCommands,
                                        filledVertex, filledIndex,
                                        triBatchesToDrawCapacity, sweeps, pc, drawLog >>
                   ELSE /\ Flush(barrier)
                        /\ drawLog' =
                               ((drawLog \o << dispatch >>) \o barrier.calls)
                               \o (IF /\ command.target \in 0..(Len(renderGroups) - 1)
                                      /\ Len(sweeps) < MaxDepth
                                   THEN << [kind |-> "visit", cmd |-> command.id] >>
                                   ELSE << >>)
                        /\ IF command.target \notin 0..(Len(renderGroups) - 1)
                           THEN /\ status' = "ub"
                                /\ UNCHANGED << renderGroups, sweeps, pc >>
                           ELSE IF Len(sweeps) >= MaxDepth
                           THEN /\ status' = "overflow"
                                /\ UNCHANGED << renderGroups, sweeps, pc >>
                           ELSE /\ status' = "ok"
                                /\ renderGroups' =
                                       [renderGroups EXCEPT ![command.target + 1] =
                                           saveRenderState(@, gl)]
                                /\ sweeps' =
                                       Append(advanced,
                                              [Frame(command.target, 0, 1, gl)
                                                  EXCEPT !.from = Len(drawLog')])
                                /\ UNCHANGED pc
              ELSE IF command.type \in ExecutedTypes
              THEN IF ~barrier.ok
                   THEN /\ status' = "assert"
                        /\ UNCHANGED << renderGroups, queuedTriangleCommands,
                                        filledVertex, filledIndex,
                                        triBatchesToDrawCapacity, sweeps, pc, drawLog >>
                   ELSE /\ Flush(barrier)
                        /\ status' = "ok"
                        /\ drawLog' = ((drawLog \o << dispatch >>) \o barrier.calls)
                                      \o << [kind |-> "execute", cmd |-> command.id] >>
                        /\ sweeps' = advanced
                        /\ pc' = "callback"
                        /\ UNCHANGED renderGroups
              ELSE /\ status' = "ok"
                   /\ sweeps' = advanced
                   /\ drawLog' = drawLog \o << dispatch >>
                   /\ UNCHANGED << renderGroups, queuedTriangleCommands, filledVertex,
                                   filledIndex, triBatchesToDrawCapacity, pc >>
    /\ UNCHANGED << commandGroupStack, isRendering, glViewAssigned, isDepthTestFor2D,
                    gl, scene, createdIds, scan >>

\* the return of execute() of a Custom, Batch or Primitive command
CallbackReturn ==
    /\ status = "ok" /\ pc = "callback"
    /\ pc' = "sweep"
    /\ lastOp' = Op("callbackReturn", 0, 0)
    /\ UNCHANGED << renderGroups, commandGroupStack, isRendering, glViewAssigned,
                    isDepthTestFor2D, queuedTriangleCommands, filledVertex, filledIndex,
                    triBatchesToDrawCapacity, gl, sweeps, status,
                    scene, createdIds, drawLog, scan >>

\* the number of commands held by the queues of a table
RECURSIVE TotalSize(_)
TotalSize(groups) ==
    IF groups = << >> THEN 0 ELSE size(Head(groups)) + TotalSize(Tail(groups))

\* a cleanup that gives up every queue but the root
ClearedGroupsRootOnly(groups) == << clear(groups[1]) >>

\* a cleanup that clears the root queue alone
ClearedGroupsRootCleared(groups) == [groups EXCEPT ![1] = clear(@)]

\* the loop of Renderer::clean (lines 559-568): every queue of the table cleared
ClearedGroups(groups) ==
    AsSeq([k \in 1..Len(groups) |-> clear(groups[k])], Len(groups))

\* Renderer::clean (lines 557-574) and the end of render (lines 553-554);
\* lastOp keeps the number of commands the queues held
Clean ==
    /\ status = "ok" /\ pc = "clean"
    /\ renderGroups' = ClearedGroups(renderGroups)
    /\ queuedTriangleCommands' = << >>
    /\ filledVertex' = 0
    /\ filledIndex' = 0
    /\ isRendering' = FALSE
    /\ pc' = "idle"
    /\ drawLog' = << >>
    /\ lastOp' = Op("clean", TotalSize(renderGroups), 0)
    /\ UNCHANGED << commandGroupStack, glViewAssigned, isDepthTestFor2D,
                    triBatchesToDrawCapacity, gl, sweeps, status, scene, createdIds, scan >>

RenderSteps ==
    \/ Render
    \/ VisitNextSubQueue
    \/ ProcessRenderCommand
    \/ CallbackReturn
    \/ FinishVisit
    \/ Clean

\* the queue ids the application passes: those of the table, one below and
\* one above
QueueIds == -1..Len(renderGroups)

Next ==
    \/ \E command \in scene, renderQueue \in QueueIds : AddCommandTo(command, renderQueue)
    \/ \E command \in scene : AddCommand(command)
    \/ \E renderQueueID \in 0..Len(renderGroups) : PushGroup(renderQueueID)
    \/ PopGroup
    \/ Len(renderGroups) < MaxQueues /\ CreateRenderQueue
    \/ InitGLView
    \/ RenderSteps

Spec == Init /\ [][Next]_vars

NextSweep ==
    \/ \E command \in scene, renderQueue \in 0..(Len(renderGroups) - 1) :
           AddCommandTo(command, renderQueue)
    \/ \E command \in scene, renderQueue \in 0..(Len(renderGroups) - 1) :
           AddDirect(command, renderQueue)
    \/ Len(renderGroups) < MaxQueues /\ CreateRenderQueue
    \/ InitGLView
    \/ \E enable \in BOOLEAN : SetDepthTest(enable)
    \/ RenderSteps

SpecSweep == InitSweep /\ [][NextSweep]_vars

-----------------------------------------------------------------------------
(* The queue table over several frames: more queues, one small scene *)

InitTable ==
    /\ Constructed
    /\ gl = Ambient(FALSE, FALSE, FALSE, FALSE)
    /\ scene = {Quad(1, 0, 1), Other(2, "CUSTOM_COMMAND", 1)}

NextTable ==
    \/ \E command \in scene, renderQueue \in 0..(Len(renderGroups) - 1) :
           AddCommandTo(command, renderQueue)
    \/ \E command \in scene : AddCommand(command)
    \/ \E renderQueueID \in 0..(Len(renderGroups) - 1) : PushGroup(renderQueueID)
    \/ PopGroup
    \/ Len(renderGroups) < MaxTable /\ CreateRenderQueue
    \/ InitGLView
    \/ RenderSteps

SpecTable == InitTable /\ [][NextTable]_vars

-----------------------------------------------------------------------------
(* Frames over queues whose Group commands may lead back to a queue being
   swept.  render runs to its end once called: nothing but its own steps and
   the callbacks it calls can run before it returns. *)

CycleScenes ==
    { {Grp(1, -1, 0), Quad(2, 0, 1)},
      {Grp(1, 0, 1), Grp(2, 0, 0)},
      {Grp(1, 0, 1), Quad(2, 0, 1), Other(3, "CUSTOM_COMMAND", 1)} }

InitCycle ==
    /\ Constructed
    /\ gl = Ambient(FALSE, FALSE, FALSE, FALSE)
    /\ scene \in CycleScenes

NextCycle ==
    \/ \E command \in scene, renderQueue \in 0..(Len(renderGroups) - 1) :
           AddCommandTo(command, renderQueue)
    \/ Len(renderGroups) < MaxQueues /\ CreateRenderQueue
    \/ InitGLView
    \/ RenderSteps

SpecCycle == InitCycle /\ [][NextCycle]_vars /\ WF_vars(RenderSteps)

-----------------------------------------------------------------------------
(* Frames that meet a command of unknown type.  addCommand refuses such a
   command; it gets into a queue through a direct append to a 3D sub-queue. *)

UnknownScenes ==
    { {In3D(Quad(1, 0, 1), "OPAQUE_3D"), In3D(Other(2, "UNKNOWN_COMMAND", 0), "OPAQUE_3D"),
       In3D(Quad(3, 0, 1), "OPAQUE_3D")},
      {Quad(1, -1, 1), In3D(Other(2, "UNKNOWN_COMMAND", 0), "TRANSPARENT_3D"),
       Other(3, "CUSTOM_COMMAND", 0)} }

InitUnknown ==
    /\ Constructed
    /\ gl \in AmbientInit
    /\ scene \in UnknownScenes

NextUnknown ==
    \/ \E command \in scene : AddCommandTo(command, DEFAULT_RENDER_QUEUE)
    \/ \E command \in scene : AddDirect(command, DEFAULT_RENDER_QUEUE)
    \/ InitGLView
    \/ \E enable \in BOOLEAN : SetDepthTest(enable)
    \/ RenderSteps

SpecUnknown == InitUnknown /\ [][NextUnknown]_vars

-----------------------------------------------------------------------------
(* Frames whose sweeps stage and draw Triangles commands around Group
   commands, barriers, a full buffer and a sort *)

CoverScenes ==
    { {Quad(1, 0, 1), Grp(2, 0, 1), Quad(3, 0, 1), Quad(4, 1, 2)},
      {Grp(1, 0, 1), Grp(2, 0, 1), Quad(3, 0, 1)},
      {Tri(1, 0, 1, FALSE, VBO_SIZE - 4, INDEX_VBO_SIZE - 6), Quad(2, 0, 1),
       Quad(3, 0, 2)},
      {Quad(1, -1, 1), Tri(2, -1, 2, TRUE, 3, 3), Other(3, "CUSTOM_COMMAND", -1)} }

InitCover ==
    /\ Constructed
    /\ gl = Ambient(FALSE, FALSE, FALSE, FALSE)
    /\ scene \in CoverScenes

NextCover ==
    \/ \E command \in scene, renderQueue \in 0..(Len(renderGroups) - 1) :
           AddCommandTo(command, renderQueue)
    \/ Len(renderGroups) < MaxQueues /\ CreateRenderQueue
    \/ InitGLView
    \/ RenderSteps

SpecCover == InitCover /\ [][NextCover]_vars

-----------------------------------------------------------------------------
(* RenderQueue on its own: push_back, direct appends, sort and clear on the
   root queue *)

\* the ordering keys pushed
OrderKeys == -2..2

InitQueue ==
    /\ Constructed
    /\ gl = Ambient(FALSE, FALSE, FALSE, FALSE)
    /\ scene = {}

QueueUnchanged ==
    UNCHANGED << commandGroupStack, isRendering, glViewAssigned, isDepthTestFor2D,
                 queuedTriangleCommands, filledVertex, filledIndex,
                 triBatchesToDrawCapacity, gl, sweeps, pc, status,
                 scene, createdIds, drawLog,
                 scan >>

QueuePush(z) ==
    /\ size(renderGroups[1]) < MaxQueueLen
    /\ LET command == Other(size(renderGroups[1]) + 1, "CUSTOM_COMMAND", z)
       IN  /\ renderGroups' = << push_back(renderGroups[1], command) >>
           /\ lastOp' = Op("push_back", 0, command.id)
    /\ QueueUnchanged

QueuePushDirect(z, group) ==
    /\ size(renderGroups[1]) < MaxQueueLen
    /\ LET command == In3D(Other(size(renderGroups[1]) + 1, "CUSTOM_COMMAND", z), group)
       IN  /\ renderGroups' = << push_direct(renderGroups[1], group, command) >>
           /\ lastOp' = Op("push_direct", 0, command.id)
    /\ QueueUnchanged

QueueSort ==
    /\ \E sorted \in SortedQueues(renderGroups[1]) : renderGroups' = << sorted >>
    /\ lastOp' = Op("sort", 0, 0)
    /\ QueueUnchanged

QueueClear ==
    /\ renderGroups' = << clear(renderGroups[1]) >>
    /\ lastOp' = Op("clear", 0, 0)
    /\ QueueUnchanged

NextQueue ==
    \/ \E z \in OrderKeys : QueuePush(z)
    \/ \E z \in OrderKeys, group \in {"OPAQUE_3D", "TRANSPARENT_3D"} :
           QueuePushDirect(z, group)
    \/ QueueSort
    \/ QueueClear

SpecQueue == InitQueue /\ [][NextQueue]_vars

-----------------------------------------------------------------------------
(* One pass of drawBatchedTriangles, iteration by iteration, over the lists of
   commands a sweep may have staged *)

\* the material ids of the staged commands
Materials == {NoMaterialID, 1, 2}

\* (vertex count, index count) of the staged commands: a quad, a triangle
Shapes == { << 4, 6 >>, << 3, 3 >> }

StagedCommands(id) ==
    {Tri(id, 0, mat, skip, shape[1], shape[2]) :
        mat \in Materials, skip \in BOOLEAN, shape \in Shapes}

RECURSIVE StagedListsOf(_)
StagedListsOf(n) ==
    IF n = 0 THEN { << >> }
    ELSE {Append(s, c) : s \in StagedListsOf(n - 1), c \in StagedCommands(n)}

\* the staged lists of up to max commands: processRenderCommand stages a
\* command only while the totals stay within the capacities
StagedLists(max) ==
    {s \in UNION {StagedListsOf(n) : n \in 1..max} :
        SumOver(s, "vc") <= VBO_SIZE /\ SumOver(s, "ic") <= INDEX_VBO_SIZE}

InitBatch ==
    /\ renderGroups = << EmptyQueue >>
    /\ commandGroupStack = << DEFAULT_RENDER_QUEUE >>
    /\ isRendering = TRUE
    /\ glViewAssigned = TRUE
    /\ isDepthTestFor2D = FALSE
    /\ queuedTriangleCommands \in StagedLists(MaxStaged)
    /\ filledVertex = SumOver(queuedTriangleCommands, "vc")
    /\ filledIndex = SumOver(queuedTriangleCommands, "ic")
    /\ triBatchesToDrawCapacity = TriBatchesInitialCapacity
    /\ gl = Ambient(FALSE, FALSE, TRUE, FALSE)
    /\ sweeps = << >>
    /\ pc = "batch"
    /\ status = "ok"
    /\ scene = {}
    /\ createdIds = << >>
    /\ drawLog = << >>
    /\ scan = ScanStart(TriBatchesInitialCapacity)
    /\ lastOp = Op("drawBatchedTriangles", 0, 0)

BatchUnchanged ==
    UNCHANGED << renderGroups, commandGroupStack, isRendering, glViewAssigned,
                 isDepthTestFor2D, gl, sweeps, scene, createdIds >>

\* lines 633-634 and one iteration of the loop (lines 646-685)
BatchIterate ==
    /\ status = "ok" /\ pc = "batch"
    /\ scan.it <= Len(queuedTriangleCommands)
    /\ scan' = BatchStep(scan, queuedTriangleCommands[scan.it])
    /\ status' = IF scan'.ok THEN "ok" ELSE "assert"
    /\ filledVertex' = scan'.filledVertex
    /\ filledIndex' = scan'.filledIndex
    /\ triBatchesToDrawCapacity' = scan'.capacity
    /\ lastOp' = Op("iterate", 0, queuedTriangleCommands[scan.it].id)
    /\ UNCHANGED << queuedTriangleCommands, pc, drawLog >>
    /\ BatchUnchanged

\* the draw loop and the cleanup (lines 741-764)
BatchDraw ==
    /\ status = "ok" /\ pc = "batch"
    /\ scan.it > Len(queuedTriangleCommands)
    /\ drawLog' = DrawCalls(scan)
    /\ queuedTriangleCommands' = << >>
    /\ filledVertex' = 0
    /\ filledIndex' = 0
    /\ pc' = "drawn"
    /\ lastOp' = Op("draw", 0, 0)
    /\ UNCHANGED << triBatchesToDrawCapacity, status, scan >>
    /\ BatchUnchanged

NextBatch ==
    \/ BatchIterate
    \/ BatchDraw

SpecBatch == InitBatch /\ [][NextBatch]_vars

-----------------------------------------------------------------------------
(* The descriptor array over passes long enough to fill it.  The staging
   arrays of the build (65536 vertices, 98304 indices) hold more than twenty
   thousand Triangles commands, so a pass may need more descriptors than the
   500 the array starts with.  The capacity is kept from one pass to the
   next. *)

\* a staged list of n triangles of alternating materials: every command
\* begins a batch
Alternating(n) == [k \in 1..n |-> Tri(k, 0, 1 + (k % 2), FALSE, 3, 3)]

\* a staged list of n skip-batching triangles of one material, the first
\* batchable: every command begins a batch
Unbatchable(n) == [k \in 1..n |-> Tri(k, 0, 1, k > 1, 3, 3)]

\* a staged list of n triangles whose material changes every second command
Paired(n) == [k \in 1..n |-> Tri(k, 0, 1 + ((k \div 2) % 2), FALSE, 3, 3)]

\* the lists staged: one that stays below the capacity, lists that reach it
\* once and twice, fewer boundaries than commands
GrowLists ==
    { Alternating(TriBatchesInitialCapacity - 1),
      Alternating(TriBatchesInitialCapacity),
      Unbatchable(MaxGrowStaged),
      Paired(MaxGrowStaged) }

\* the state in which drawBatchedTriangles is entered with staged list cmds
GrowStaged(cmds) ==
    /\ queuedTriangleCommands = cmds
    /\ filledVertex = 3 * Len(cmds)
    /\ filledIndex = 3 * Len(cmds)

InitGrow ==
    /\ renderGroups = << EmptyQueue >>
    /\ commandGroupStack = << DEFAULT_RENDER_QUEUE >>
    /\ isRendering = TRUE
    /\ glViewAssigned = TRUE
    /\ isDepthTestFor2D = FALSE
    /\ \E cmds \in GrowLists : GrowStaged(cmds)
    /\ triBatchesToDrawCapacity = TriBatchesInitialCapacity
    /\ gl = Ambient(FALSE, FALSE, TRUE, FALSE)
    /\ sweeps = << >>
    /\ pc = "batch"
    /\ status = "ok"
    /\ scene = {}
    /\ createdIds = << >>
    /\ drawLog = << >>
    /\ scan = ScanStart(TriBatchesInitialCapacity)
    /\ lastOp = Op("drawBatchedTriangles", 0, 0)

\* the next pass: the commands staged since the last one (lines 371-373) and
\* the entry of drawBatchedTriangles (lines 633-644) with the capacity the
\* last pass left
NextPass ==
    /\ status = "ok" /\ pc = "drawn"
    /\ \E cmds \in GrowLists :
           /\ queuedTriangleCommands' = cmds
           /\ filledVertex' = 3 * Len(cmds)
           /\ filledIndex' = 3 * Len(cmds)
    /\ scan' = ScanStart(triBatchesToDrawCapacity)
    /\ pc' = "batch"
    /\ drawLog' = << >>
    /\ lastOp' = Op("drawBatchedTriangles", 0, 0)
    /\ UNCHANGED << triBatchesToDrawCapacity, status >>
    /\ BatchUnchanged

NextGrow ==
    \/ BatchIterate
    \/ BatchDraw
    \/ NextPass

SpecGrow == InitGrow /\ [][NextGrow]_vars

-----------------------------------------------------------------------------
(* The index arithmetic of a pass: fillVerticesAndIndices command by command
   over staged lists whose commands carry their index arrays.  The vertex
   capacity of the build, 65536, is the number of values of an index; the
   lists go beyond it and hold indices outside their command's vertices, so
   that both conditions on the input can fail. *)

\* VBO_SIZE of the build (65536 = 2^16) for the index width of SpecFill
FillCapacity == IndexModulus

\* vertex counts of the staged commands: a quarter and a half of the capacity
FillVertexCounts == {FillCapacity \div 4, FillCapacity \div 2}

\* the index arrays of a command of vc vertices: its first and last vertex in
\* both orders, and one with an index that names no vertex of the command
FillIndexArrays(vc) == { << 0, vc - 1 >>, << vc - 1, 0 >>, << 0, vc >> }

FillCommands(id) ==
    UNION {{WithIndices(Tri(id, 0, 1, FALSE, vc, 2), indices) :
               indices \in FillIndexArrays(vc)} : vc \in FillVertexCounts}

RECURSIVE FillListsOf(_)
FillListsOf(n) ==
    IF n = 0 THEN { << >> }
    ELSE {Append(s, c) : s \in FillListsOf(n - 1), c \in FillCommands(n)}

FillLists == UNION {FillListsOf(n) : n \in 1..MaxFill}

InitFill ==
    /\ renderGroups = << EmptyQueue >>
    /\ commandGroupStack = << DEFAULT_RENDER_QUEUE >>
    /\ isRendering = TRUE
    /\ glViewAssigned = TRUE
    /\ isDepthTestFor2D = FALSE
    /\ queuedTriangleCommands \in FillLists
    /\ filledVertex = 0
    /\ filledIndex = 0
    /\ triBatchesToDrawCapacity = TriBatchesInitialCapacity
    /\ gl = Ambient(FALSE, FALSE, TRUE, FALSE)
    /\ sweeps = << >>
    /\ pc = "fill"
    /\ status = "ok"
    /\ scene = {}
    /\ createdIds = << >>
    /\ drawLog = << >>
    /\ scan = FillStart
    /\ lastOp = Op("drawBatchedTriangles", 0, 0)

\* the call of fillVerticesAndIndices in one iteration of the loop (line 652)
FillIterate ==
    /\ status = "ok" /\ pc = "fill"
    /\ scan.it <= Len(queuedTriangleCommands)
    /\ scan' = fillVerticesAndIndices(scan, queuedTriangleCommands[scan.it])
    /\ filledVertex' = scan'.filledVertex
    /\ filledIndex' = scan'.filledIndex
    /\ lastOp' = Op("fill", 0, queuedTriangleCommands[scan.it].id)
    /\ UNCHANGED << queuedTriangleCommands, triBatchesToDrawCapacity, pc, status,
                    drawLog >>
    /\ BatchUnchanged

\* the end of the loop
FillDone ==
    /\ status = "ok" /\ pc = "fill"
    /\ scan.it > Len(queuedTriangleCommands)
    /\ pc' = "filled"
    /\ lastOp' = Op("filled", 0, 0)
    /\ UNCHANGED << queuedTriangleCommands, filledVertex, filledIndex,
                    triBatchesToDrawCapacity, status, drawLog, scan >>
    /\ BatchUnchanged

NextFill ==
    \/ FillIterate
    \/ FillDone

SpecFill == InitFill /\ [][NextFill]_vars

-----------------------------------------------------------------------------
(* Properties of the batching pass (SpecBatch) *)

\* the staged commands the loop has gone through
Scanned == 1..(scan.it - 1)

\* the entry of _triBatchesToDraw (from 1) that covers staged command i
DescriptorOf(i) ==
    CHOOSE d \in 1..Len(scan.tri) : i \in Range(scan.tri[d].merged)

\* the material identifier carried over from staged command i
CarriedFrom(i) ==
    IF queuedTriangleCommands[i].skip THEN NoMaterialID
    ELSE queuedTriangleCommands[i].mat

\* whether staged command i (i >= 2) has to extend the batch of command i - 1
Extends(i) ==
    /\ ~queuedTriangleCommands[i].skip
    /\ queuedTriangleCommands[i].mat = CarriedFrom(i - 1)

\* the pass is in progress or over and no assertion has failed
InPass == pc = "batch" /\ status = "ok"

C3_SkipBatchingAlone ==
    InPass =>
        \A d \in 1..Len(scan.tri) :
            \A k \in 1..Len(scan.tri[d].merged) :
                queuedTriangleCommands[scan.tri[d].merged[k]].skip
                    => Len(scan.tri[d].merged) = 1

-----------------------------------------------------------------------------
(* Properties of RenderQueue (SpecQueue) *)

NonDecreasing(s) == \A i, j \in 1..Len(s) : i < j => s[i].z <= s[j].z

\* C5: after sort() the NegativeZ and PositiveZ sub-queues hold the same
\* commands as before the call, arranged with non-decreasing ordering key.
C5_SortOrdersNegPos ==
    [][lastOp'.op = "sort" =>
          \A g \in {"GLOBALZ_NEG", "GLOBALZ_POS"} :
              /\ SameBag(renderGroups[1].commands[g], renderGroups'[1].commands[g])
              /\ NonDecreasing(renderGroups'[1].commands[g])]_vars

\* sort() has just rearranged a NegativeZ sub-queue of three commands pushed
\* with keys in some other order
C5_Witness ==
    /\ lastOp.op = "sort"
    /\ Len(renderGroups[1].commands["GLOBALZ_NEG"]) = 3
    /\ renderGroups[1].commands["GLOBALZ_NEG"][1].id = 3
    /\ renderGroups[1].commands["GLOBALZ_NEG"][1].z
           < renderGroups[1].commands["GLOBALZ_NEG"][3].z

\* C6: sort() leaves the ZeroZ, Opaque3D and Transparent3D sub-queues as they
\* were, the same commands in the same order.
C6_SortKeepsOthers ==
    [][lastOp'.op = "sort" =>
          \A g \in {"GLOBALZ_ZERO", "OPAQUE_3D", "TRANSPARENT_3D"} :
              renderGroups'[1].commands[g] = renderGroups[1].commands[g]]_vars

\* sort() has run on a queue whose Opaque3D sub-queue holds keys in
\* decreasing order and whose ZeroZ sub-queue holds a command
C6_Witness ==
    /\ lastOp.op = "sort"
    /\ Len(renderGroups[1].commands["OPAQUE_3D"]) = 2
    /\ renderGroups[1].commands["OPAQUE_3D"][1].z
           > renderGroups[1].commands["OPAQUE_3D"][2].z
    /\ Len(renderGroups[1].commands["GLOBALZ_ZERO"]) = 1

\* the sub-queue the sign of an ordering key stands for
SignGroup(z) ==
    CASE z < 0 -> "GLOBALZ_NEG"
      [] z = 0 -> "GLOBALZ_ZERO"
      [] z > 0 -> "GLOBALZ_POS"

\* C7: push appends the command to the one sub-queue the sign of its key
\* names and to no other (never Opaque3D or Transparent3D); and at all times
\* a command that came through push sits in NegativeZ iff its key is
\* negative, in ZeroZ iff it is zero, in PositiveZ iff it is positive.
C7_PushBySign ==
    /\ [](\A g \in {"GLOBALZ_NEG", "GLOBALZ_ZERO", "GLOBALZ_POS"} :
             \A k \in 1..Len(renderGroups[1].commands[g]) :
                 SignGroup(renderGroups[1].commands[g][k].z) = g)
    /\ [][lastOp'.op = "push_back" =>
             \E g \in {"GLOBALZ_NEG", "GLOBALZ_ZERO", "GLOBALZ_POS"} :
                 /\ Len(renderGroups'[1].commands[g])
                        = Len(renderGroups[1].commands[g]) + 1
                 /\ LET pushed == renderGroups'[1].commands[g][
                                      Len(renderGroups'[1].commands[g])]
                    IN  /\ pushed.id = lastOp'.cmd
                        /\ SignGroup(pushed.z) = g
                        /\ renderGroups'[1].commands[g]
                               = Append(renderGroups[1].commands[g], pushed)
                 /\ \A h \in QUEUE_GROUP \ {g} :
                        renderGroups'[1].commands[h] = renderGroups[1].commands[h]]_vars

\* commands with a negative, a zero and a positive key have been pushed and
\* the queue has been sorted
C7_Witness ==
    /\ lastOp.op = "sort"
    /\ Len(renderGroups[1].commands["GLOBALZ_NEG"]) = 1
    /\ Len(renderGroups[1].commands["GLOBALZ_ZERO"]) = 1
    /\ Len(renderGroups[1].commands["GLOBALZ_POS"]) = 1

-----------------------------------------------------------------------------
(* The sweep: flush barriers, the order of the sub-queues, the ambient state *)

\* the command object of the scene with identifier id
CmdOf(id) == CHOOSE c \in scene : c.id = id

Staged ==
    [queued |-> queuedTriangleCommands, filledVertex |-> filledVertex,
     filledIndex |-> filledIndex]

NothingStaged == Staged = [queued |-> << >>, filledVertex |-> 0, filledIndex |-> 0]

\* the events of the frame of one kind, in order
EventsOf(kind) == SelectSeq(drawLog, LAMBDA e : e.kind = kind)

\* in the frame's events: the execute() of a Custom, Batch or Primitive
\* command, or the start of the sweep of a Group command's queue
BarrierAt(x) == drawLog[x].kind \in {"execute", "visit"}

\* every command of the draw call at p was dispatched before it with no
\* barrier in between
DrawnSinceBarrier(p) ==
    \A k \in 1..Len(drawLog[p].cmds) :
        \E r \in 1..(p - 1) :
            /\ drawLog[r].kind = "dispatch"
            /\ drawLog[r].cmd = drawLog[p].cmds[k]
            /\ \A x \in (r + 1)..(p - 1) : ~BarrierAt(x)

\* the frame dispatched a Triangles command, a Custom command and a Triangles
\* command of the same material, in this order, and is over
TrianglesCustomTriangles ==
    /\ pc = "clean" /\ status = "ok"
    /\ Len(EventsOf("dispatch")) = 3
    /\ LET d == EventsOf("dispatch")
       IN  /\ d[1].type = "TRIANGLES_COMMAND"
           /\ d[2].type = "CUSTOM_COMMAND"
           /\ d[3].type = "TRIANGLES_COMMAND"
           /\ CmdOf(d[1].cmd).mat = CmdOf(d[3].cmd).mat
           /\ ~CmdOf(d[1].cmd).skip /\ ~CmdOf(d[3].cmd).skip

\* C1: a Group, Custom, Batch or Primitive command is a flush barrier: when
\* it executes, or when the sweep of its queue starts, no Triangles command is
\* staged and the staged vertex and index counts are zero; so no draw call
\* covers Triangles commands dispatched on both sides of it, and a Custom
\* command between two Triangles commands of one material gives two draw calls.
C1_FlushBarrier ==
    /\ pc = "callback" => NothingStaged
    /\ (pc = "sweep" /\ Len(sweeps) > 1 /\ Top.b = 0) => NothingStaged
    /\ \A p \in 1..Len(drawLog) : drawLog[p].kind = "draw" => DrawnSinceBarrier(p)
    /\ TrianglesCustomTriangles =>
           /\ Len(EventsOf("draw")) = 2
           /\ \A n \in 1..2 : Len(EventsOf("draw")[n].cmds) = 1

C1_Witness ==
    /\ TrianglesCustomTriangles
    /\ [n \in 1..Len(drawLog) |-> drawLog[n].kind] =
           << "dispatch", "dispatch", "draw", "execute", "dispatch", "draw" >>

\* the order of the sub-queues the sweep is to follow
BucketOrder ==
    << "GLOBALZ_NEG", "OPAQUE_3D", "TRANSPARENT_3D", "GLOBALZ_ZERO", "GLOBALZ_POS" >>

BucketRank(group) == CHOOSE n \in 1..5 : BucketOrder[n] = group

\* before the n-th dispatch of activation f, every command of every earlier
\* sub-queue of its queue was dispatched by it
EarlierBucketsDone(f, n) ==
    \A g \in QUEUE_GROUP :
        BucketRank(g) < BucketRank(f.done[n].group) =>
            \A j \in 1..Len(renderGroups[f.q + 1].commands[g]) :
                \E m \in 1..(n - 1) :
                    f.done[m] = [group |-> g,
                                 id |-> renderGroups[f.q + 1].commands[g][j].id]

\* among the commands queued by their ordering key, the n-th dispatch of
\* activation f follows no dispatch of a command with a greater sign of key
KeySignsInOrder(f, n) ==
    \A m \in 1..(n - 1) :
        LET a == CmdOf(f.done[m].id)
            b == CmdOf(f.done[n].id)
        IN  (a.sub3D = "none" /\ b.sub3D = "none") =>
                /\ ~(b.z < 0 /\ a.z >= 0)
                /\ ~(b.z = 0 /\ a.z > 0)

\* C4: the sweep of a queue takes its sub-queues in the order Global-Z < 0,
\* Opaque 3D, Transparent 3D, Global-Z = 0, Global-Z > 0: when a command is
\* dispatched every command of an earlier sub-queue has been dispatched, and
\* when the first command of a sub-queue is about to be dispatched nothing
\* staged from an earlier one is left undrawn; so the commands with a negative
\* key come before those with key zero, and these before the positive ones.
C4_BucketOrder ==
    /\ \A k \in 1..Len(sweeps) :
           \A n \in 1..Len(sweeps[k].done) :
               /\ EarlierBucketsDone(sweeps[k], n)
               /\ KeySignsInOrder(sweeps[k], n)
    /\ (pc = "sweep" /\ Top.b \in 1..5 /\ Top.i = 1) =>
           /\ NothingStaged
           /\ \A r \in 1..Len(drawLog) :
                  (drawLog[r].kind = "dispatch" /\ drawLog[r].type = "TRIANGLES_COMMAND") =>
                      \E p \in (r + 1)..Len(drawLog) :
                          /\ drawLog[p].kind = "draw"
                          /\ drawLog[r].cmd \in Range(drawLog[p].cmds)

C4_Witness ==
    /\ pc = "sweep" /\ Len(sweeps) = 1 /\ Top.b = 5 /\ Top.i = 1
    /\ [n \in 1..Len(Top.done) |-> Top.done[n].group] =
           << "GLOBALZ_NEG", "GLOBALZ_ZERO" >>
    /\ Len(EventsOf("draw")) = 2

\* C8: the ambient state (depth test, depth write, blend, face culling) right
\* after a sweep returns, of the root queue or of a Group command's queue, is
\* the ambient state right before that sweep began.
C8_SweepRestoresAmbient ==
    [][lastOp'.op = "finishVisit" => gl' = sweeps[Len(sweeps)].entry]_vars

-----------------------------------------------------------------------------
(* The frame-in-progress flag and the routing of addCommand                  *)

Guarded == {"addCommand", "addCommandTo", "pushGroup", "popGroup"}

RoutedTo(id, command) ==
    [renderGroups EXCEPT ![id + 1].commands[SignGroup(command.z)] = Append(@, command)]

\* a call of addCommand(command, id) that is to be accepted
Accepted(id, command) ==
    /\ ~isRendering
    /\ id \in 0..(Len(renderGroups) - 1)
    /\ command.type # "UNKNOWN_COMMAND"

\* C10: addCommand(command, id) appends the command to queue id and changes
\* no other queue; addCommand(command) appends it to the queue whose id is on
\* top of the group stack; the stack holds 0 alone at first, pushGroup puts
\* its id on top and popGroup takes the top away again.
C10_Routing ==
    /\ [](lastOp.op = "Renderer" => commandGroupStack = << 0 >>)
    /\ [][lastOp'.op = "addCommandTo" =>
             renderGroups' =
                 IF Accepted(lastOp'.id, CmdOf(lastOp'.cmd))
                 THEN RoutedTo(lastOp'.id, CmdOf(lastOp'.cmd))
                 ELSE renderGroups]_vars
    /\ [][lastOp'.op = "addCommand" =>
             renderGroups' =
                 IF commandGroupStack = << >> THEN renderGroups
                 ELSE IF Accepted(commandGroupStack[Len(commandGroupStack)],
                                  CmdOf(lastOp'.cmd))
                 THEN RoutedTo(commandGroupStack[Len(commandGroupStack)],
                               CmdOf(lastOp'.cmd))
                 ELSE renderGroups]_vars
    /\ [][(lastOp'.op = "pushGroup" /\ ~isRendering) =>
             commandGroupStack' = Append(commandGroupStack, lastOp'.id)]_vars
    /\ [][(lastOp'.op = "popGroup" /\ ~isRendering /\ commandGroupStack # << >>) =>
             Append(commandGroupStack', commandGroupStack[Len(commandGroupStack)])
                 = commandGroupStack]_vars

C10_Witness ==
    /\ lastOp.op = "addCommand" /\ status = "ok"
    /\ commandGroupStack = << 0, 1 >>
    /\ size(renderGroups[1]) = 0
    /\ size(renderGroups[2]) = 1

-----------------------------------------------------------------------------
(* The queue table across frames                                             *)

\* C11: the ids createRenderQueue returns grow strictly from call to call,
\* the first being 1, so none is returned twice; each names the queue just
\* added at the end of the table; the table never gets shorter, through
\* render and its cleanup included.
C11_QueueIdsGrow ==
    /\ [](/\ \A m, n \in 1..Len(createdIds) : m < n => createdIds[m] < createdIds[n]
          /\ createdIds # << >> => createdIds[1] = 1)
    /\ [][Len(renderGroups') >= Len(renderGroups)]_vars
    /\ [][lastOp'.op = "createRenderQueue" =>
             /\ lastOp'.id = Len(renderGroups') - 1
             /\ Len(renderGroups') = Len(renderGroups) + 1
             /\ \A n \in 1..Len(createdIds) : createdIds[n] < lastOp'.id]_vars

C11_Witness ==
    /\ lastOp.op = "clean" /\ lastOp.id = 2
    /\ createdIds = << 1, 2 >>
    /\ Len(renderGroups) = 3

AllBucketsEmpty(queue) == \A g \in QUEUE_GROUP : queue.commands[g] = << >>

RenderOps ==
    {"render", "visitNextSubQueue", "processRenderCommand", "finishVisit",
     "callbackReturn", "clean"}

\* C12: when render returns every queue of the table, swept or not, has its
\* five sub-queues empty, no Triangles command is staged, the staged vertex
\* and index counts are zero and the frame-in-progress flag is clear; no step
\* of render changes the number of queues; so also when no GL view is
\* assigned and nothing is swept.
C12_CleanAfterRender ==
    /\ [](lastOp.op = "clean" =>
             /\ \A k \in 1..Len(renderGroups) : AllBucketsEmpty(renderGroups[k])
             /\ queuedTriangleCommands = << >>
             /\ filledVertex = 0 /\ filledIndex = 0
             /\ ~isRendering /\ pc = "idle")
    /\ [][lastOp'.op \in RenderOps => Len(renderGroups') = Len(renderGroups)]_vars
    /\ [][(lastOp.op = "render" /\ ~glViewAssigned) => lastOp'.op = "clean"]_vars

C12_Witness ==
    /\ lastOp.op = "clean" /\ lastOp.id = 2
    /\ ~glViewAssigned
    /\ Len(renderGroups) = 2

-----------------------------------------------------------------------------
(* Staging capacity                                                          *)

\* the commands covered by the draw calls among events, in order
RECURSIVE DrawnIds(_)
DrawnIds(events) ==
    IF events = << >> THEN << >>
    ELSE (IF Head(events).kind = "draw" THEN Head(events).cmds ELSE << >>)
         \o DrawnIds(Tail(events))

\* the identifiers of a list of commands
IdsOf(cmds) == [n \in 1..Len(cmds) |-> cmds[n].id]

\* what the step has added to the events of the frame
NewEvents == SubSeq(drawLog', Len(drawLog) + 1, Len(drawLog'))

\* the step is the dispatch of a Triangles command
TrianglesDispatched ==
    /\ lastOp'.op = "processRenderCommand"
    /\ CmdOf(lastOp'.cmd).type = "TRIANGLES_COMMAND"

\* the command does not exceed the staging capacity on its own
FitsOnItsOwn(command) ==
    command.vc <= VBO_SIZE /\ command.ic <= INDEX_VBO_SIZE

\* staging the command on top of what is staged would exceed a capacity
WouldExceed(command) ==
    \/ filledVertex + command.vc > VBO_SIZE
    \/ filledIndex + command.ic > INDEX_VBO_SIZE

\* C13: when a Triangles command that fits the capacity on its own is
\* dispatched and staging it would exceed the vertex or the index capacity,
\* what is staged is drawn first and the command is staged alone; the staged
\* vertex and index totals never exceed the capacities.
C13_FlushOnOverflow ==
    /\ [](filledVertex <= VBO_SIZE /\ filledIndex <= INDEX_VBO_SIZE)
    /\ [][(/\ TrianglesDispatched
           /\ FitsOnItsOwn(CmdOf(lastOp'.cmd))
           /\ WouldExceed(CmdOf(lastOp'.cmd))) =>
             /\ status' = "ok"
             /\ DrawnIds(NewEvents) = IdsOf(queuedTriangleCommands)
             /\ queuedTriangleCommands' = << CmdOf(lastOp'.cmd) >>
             /\ filledVertex' = CmdOf(lastOp'.cmd).vc
             /\ filledIndex' = CmdOf(lastOp'.cmd).ic]_vars

\* C14: a dispatched Triangles command is rejected exactly when its own
\* vertex count or its own index count exceeds the capacity, whatever is
\* staged; a command that is not rejected is staged.
C14_RejectedIffOversized ==
    [][TrianglesDispatched =>
          /\ status' = "assert" <=> ~FitsOnItsOwn(CmdOf(lastOp'.cmd))
          /\ status' = "ok" =>
                 /\ queuedTriangleCommands' # << >>
                 /\ queuedTriangleCommands'[Len(queuedTriangleCommands')]
                        = CmdOf(lastOp'.cmd)]_vars

-----------------------------------------------------------------------------
(* A frame without commands                                                  *)

\* C15: render called when no queue holds a command issues no draw call and
\* leaves the ambient state (depth test, depth write, blend, cull) as it was:
\* no step of such a frame changes it, and the sweep of the root queue
\* returns with the state it was entered with.
C15_EmptyFrame ==
    /\ [][(TotalSize(renderGroups) = 0 /\ lastOp'.op \in RenderOps) =>
             /\ gl' = gl
             /\ \A n \in 1..Len(drawLog') : drawLog'[n].kind # "draw"]_vars
    /\ [][(/\ TotalSize(renderGroups) = 0
           /\ lastOp'.op = "finishVisit"
           /\ Len(sweeps) = 1) => gl' = sweeps[1].entry]_vars

C15_Witness ==
    /\ lastOp.op = "clean" /\ lastOp.id = 0
    /\ glViewAssigned
    /\ gl = Ambient(FALSE, FALSE, FALSE, FALSE)

-----------------------------------------------------------------------------
(* The entries of _triBatchesToDraw after the scan (SpecBatch)               *)

\* the loop of the pass has gone through every staged command
ScanDone == InPass /\ scan.it > Len(queuedTriangleCommands)

\* the staged command with identifier id
StagedCmd(id) ==
    CHOOSE c \in Range(queuedTriangleCommands) : c.id = id

\* the index counts of the commands ids, added up
RECURSIVE IndexCountOf(_)
IndexCountOf(ids) ==
    IF ids = << >> THEN 0
    ELSE StagedCmd(Head(ids)).ic + IndexCountOf(Tail(ids))

\* the index counts of entries 1..d, added up
RECURSIVE IndicesUpTo(_)
IndicesUpTo(d) ==
    IF d = 0 THEN 0 ELSE scan.tri[d].indicesToDraw + IndicesUpTo(d - 1)

\* three quads of materials 1, 1, 2, none of them skip-batching
TwoPlusOne ==
    /\ Len(queuedTriangleCommands) = 3
    /\ \A i \in 1..3 :
           /\ queuedTriangleCommands[i].vc = 4 /\ queuedTriangleCommands[i].ic = 6
           /\ ~queuedTriangleCommands[i].skip
    /\ [i \in 1..3 |-> queuedTriangleCommands[i].mat] = << 1, 1, 2 >>

\* C16: after the scan the entries tile the staged indices: the first starts
\* at offset 0, each later one at the offset of the one before plus its index
\* count, the index count of an entry is the sum of the index counts of the
\* commands merged into it, and the counts add up to the number of staged
\* indices; three quads of materials 1, 1, 2 give [0, 12) with material 1 and
\* [12, 18) with material 2, 18 indices in all.
C16_DescriptorsTile ==
    ScanDone =>
        /\ Len(scan.tri) = scan.batchesTotal + 1
        /\ scan.tri[1].offset = 0
        /\ \A d \in 2..Len(scan.tri) :
               scan.tri[d].offset = scan.tri[d - 1].offset + scan.tri[d - 1].indicesToDraw
        /\ \A d \in 1..Len(scan.tri) :
               scan.tri[d].indicesToDraw = IndexCountOf(scan.tri[d].merged)
        /\ IndicesUpTo(Len(scan.tri)) = filledIndex
        /\ filledIndex = SumOver(queuedTriangleCommands, "ic")
        /\ TwoPlusOne =>
               /\ [d \in 1..Len(scan.tri) |->
                      << scan.tri[d].offset, scan.tri[d].indicesToDraw,
                         scan.tri[d].cmd.mat >>]
                      = << << 0, 12, 1 >>, << 12, 6, 2 >> >>
               /\ filledIndex = 18

C16_Witness == ScanDone /\ TwoPlusOne

-----------------------------------------------------------------------------
(* The end of a frame (SpecCycle)                                            *)

\* no queue is being swept inside its own sweep
NoSweepInsideItself ==
    \A j, k \in 1..Len(sweeps) : j < k => sweeps[j].q # sweeps[k].q

\* C17: whatever the queues hold, Group commands that lead back to a queue
\* being swept included, a frame that has begun comes to its end with the
\* frame-in-progress flag cleared, or stops on a failed precondition; so no
\* queue is ever swept inside its own sweep: the queues do not change during
\* a frame, and the inner sweep would do what the outer one did, without end.
\* (A run that ends in undefined behaviour is not one the statement is about.)
C17_RenderEnds ==
    /\ []NoSweepInsideItself
    /\ (isRendering /\ status = "ok") ~>
           (~isRendering \/ status = "assert" \/ status = "ub")

-----------------------------------------------------------------------------
(* The ambient state under which commands take effect                        *)

\* the ambient state of each sub-queue
BucketConfiguration(group) ==
    IF group = "OPAQUE_3D" THEN Ambient(TRUE, TRUE, FALSE, TRUE)
    ELSE IF group = "TRANSPARENT_3D" THEN Ambient(TRUE, FALSE, TRUE, TRUE)
    ELSE Ambient(isDepthTestFor2D, isDepthTestFor2D, TRUE, FALSE)

\* C18: a command takes effect under the ambient state of its sub-queue: a
\* Custom, Batch or Primitive command executes, and the Triangles commands of
\* a sub-queue are drawn, while depth test, depth write, blend and cull are as
\* the sub-queue sets them, also after a Group command of the same sub-queue
\* has swept its queue.
C18_EffectUnderBucketState ==
    /\ []((pc = "callback" /\ status = "ok") =>
             gl = BucketConfiguration(Top.done[Len(Top.done)].group))
    /\ [][DrawnIds(NewEvents) # << >> =>
             gl = BucketConfiguration(BucketOrder[sweeps[Len(sweeps)].b])]_vars

\* the same with the blend flag left aside
EffectUnderBucketStateButBlend ==
    /\ []((pc = "callback" /\ status = "ok") =>
             [gl EXCEPT !.blend = TRUE] =
                 [BucketConfiguration(Top.done[Len(Top.done)].group)
                     EXCEPT !.blend = TRUE])
    /\ [][DrawnIds(NewEvents) # << >> =>
             [gl EXCEPT !.blend = TRUE] =
                 [BucketConfiguration(BucketOrder[sweeps[Len(sweeps)].b])
                     EXCEPT !.blend = TRUE]]_vars

-----------------------------------------------------------------------------
(* Draw calls of a flush, and the order of effects in a frame                *)

\* the draw calls the step has issued
NewDraws == SelectSeq(NewEvents, LAMBDA e : e.kind = "draw")

\* the index counts of the scene's commands ids, added up
RECURSIVE SceneIndexCount(_)
SceneIndexCount(ids) ==
    IF ids = << >> THEN 0
    ELSE CmdOf(Head(ids)).ic + SceneIndexCount(Tail(ids))

\* the commands that have taken effect among events, in order: those covered
\* by a draw call and those executed
RECURSIVE Effects(_)
Effects(events) ==
    IF events = << >> THEN << >>
    ELSE (IF Head(events).kind = "draw" THEN Head(events).cmds
          ELSE IF Head(events).kind = "execute" THEN << Head(events).cmd >>
          ELSE << >>)
         \o Effects(Tail(events))

\* the Triangles, Custom, Batch and Primitive commands dispatched among
\* events, in order
RECURSIVE Dispatched(_)
Dispatched(events) ==
    IF events = << >> THEN << >>
    ELSE (IF /\ Head(events).kind = "dispatch"
             /\ Head(events).type \in {"TRIANGLES_COMMAND", "CUSTOM_COMMAND",
                                       "BATCH_COMMAND", "PRIMITIVE_COMMAND"}
          THEN << Head(events).cmd >> ELSE << >>)
         \o Dispatched(Tail(events))

\* C19: the draw calls of a flush cover the staged commands in their order,
\* each call the indices that follow those of the call before, from 0, under
\* the material of a command it covers; after the flush nothing that was
\* staged is left and the counts are those of what has been staged since; so
\* in a frame the commands take effect in the order of their dispatch: what
\* has taken effect is the beginning of what has been dispatched, the rest
\* is what is staged, and at the end of the frame the two are equal.
C19_DrawOrder ==
    /\ [][NewDraws # << >> =>
             /\ DrawnIds(NewEvents) = IdsOf(queuedTriangleCommands)
             /\ NewDraws[1].offset = 0
             /\ \A k \in 1..Len(NewDraws) :
                    /\ NewDraws[k].cmds # << >>
                    /\ NewDraws[k].count = SceneIndexCount(NewDraws[k].cmds)
                    /\ \E n \in 1..Len(NewDraws[k].cmds) :
                           NewDraws[k].mat = CmdOf(NewDraws[k].cmds[n]).mat
                    /\ k > 1 => NewDraws[k].offset =
                                    NewDraws[k - 1].offset + NewDraws[k - 1].count
             /\ queuedTriangleCommands' =
                    IF TrianglesDispatched THEN << CmdOf(lastOp'.cmd) >> ELSE << >>
             /\ filledVertex' = SumOver(queuedTriangleCommands', "vc")
             /\ filledIndex' = SumOver(queuedTriangleCommands', "ic")]_vars
    /\ [](Dispatched(drawLog) = Effects(drawLog) \o IdsOf(queuedTriangleCommands))
    /\ []((pc = "clean" /\ status = "ok") => Effects(drawLog) = Dispatched(drawLog))

C19_Witness ==
    /\ pc = "clean" /\ status = "ok"
    /\ Len(drawLog) = 6
    /\ [n \in 1..6 |-> drawLog[n].kind] =
           << "dispatch", "dispatch", "dispatch", "draw", "draw", "draw" >>
    /\ [n \in 4..6 |-> drawLog[n].offset] = [n \in 4..6 |-> (n - 4) * 6]

-----------------------------------------------------------------------------
(* Commands of equal key under sort (SpecQueue)                              *)

\* the position of the command with identifier id in s
PositionOf(s, id) == CHOOSE n \in 1..Len(s) : s[n].id = id

\* C20: sort is stable on the Global-Z < 0 and Global-Z > 0 sub-queues: two
\* commands of one of them with equal keys are, after sort, in the order
\* they had before it, which is the order of their submission.
C20_SortStable ==
    [][lastOp'.op = "sort" =>
          \A g \in {"GLOBALZ_NEG", "GLOBALZ_POS"} :
              LET before == renderGroups[1].commands[g]
                  after == renderGroups'[1].commands[g]
              IN  \A i, j \in 1..Len(before) :
                      (i < j /\ before[i].z = before[j].z) =>
                          PositionOf(after, before[i].id)
                              < PositionOf(after, before[j].id)]_vars

-----------------------------------------------------------------------------
(* Properties of the index arithmetic (SpecFill) *)

\* the vertices staged by the commands before staged command k
VerticesBefore(k) == SumOver(SubSeq(queuedTriangleCommands, 1, k - 1), "vc")

\* the indices staged by the commands before staged command k
IndicesBefore(k) == SumOver(SubSeq(queuedTriangleCommands, 1, k - 1), "ic")

\* every index of every staged command names a vertex of its command
IndicesWithinCommands ==
    \A k \in 1..Len(queuedTriangleCommands) :
        \A i \in 1..queuedTriangleCommands[k].ic :
            /\ queuedTriangleCommands[k].indices[i] >= 0
            /\ queuedTriangleCommands[k].indices[i] < queuedTriangleCommands[k].vc

\* the vertices of the staged list fit the vertex capacity
VerticesWithinCapacity == SumOver(queuedTriangleCommands, "vc") <= FillCapacity

\* C21: in a pass whose staged commands have indices below their vertex counts
\* and whose vertex total is within the vertex capacity, the element of the
\* index array written for index i of staged command k is the original index
\* plus the vertices staged by the commands before k, the sum as an integer
\* (nothing is lost in the 16-bit element), and it is smaller than the
\* vertices staged so far and than the vertex total of the pass.
C21_IndexOffsets ==
    (pc \in {"fill", "filled"} /\ IndicesWithinCommands /\ VerticesWithinCapacity) =>
        /\ Len(scan.indices) = IndicesBefore(scan.it)
        /\ scan.filledVertex = VerticesBefore(scan.it)
        /\ \A k \in 1..(scan.it - 1) :
               \A i \in 1..queuedTriangleCommands[k].ic :
                   LET written == scan.indices[IndicesBefore(k) + i]
                   IN  /\ written = VerticesBefore(k) + queuedTriangleCommands[k].indices[i]
                       /\ written < VerticesBefore(k + 1)
                       /\ written < scan.filledVertex
                       /\ written < SumOver(queuedTriangleCommands, "vc")

\* a pass is over whose vertices fill the capacity exactly and whose last
\* command names its last vertex: the largest value an index can take is
\* written
C21_Witness ==
    /\ pc = "filled"
    /\ IndicesWithinCommands
    /\ Len(queuedTriangleCommands) >= 2
    /\ SumOver(queuedTriangleCommands, "vc") = FillCapacity
    /\ \E p \in 1..Len(scan.indices) : scan.indices[p] = IndexModulus - 1

\* the conditions of C21 are needed: beyond the capacity a written index
\* wraps round and names a vertex of an earlier command
IndexWrapsBeyondCapacity ==
    /\ pc = "filled"
    /\ IndicesWithinCommands
    /\ ~VerticesWithinCapacity
    /\ \E k \in 1..Len(queuedTriangleCommands) :
           \E i \in 1..queuedTriangleCommands[k].ic :
               scan.indices[IndicesBefore(k) + i] < VerticesBefore(k)

-----------------------------------------------------------------------------
(* A command of unknown type at dispatch (SpecUnknown) *)

\* the step dispatches a command of unknown type
UnknownDispatched ==
    /\ lastOp'.op = "processRenderCommand"
    /\ CmdOf(lastOp'.cmd).type = "UNKNOWN_COMMAND"

\* the frame's events hold the dispatch of command a, then that of b, then
\* that of c, one after the other
DispatchedInARow(a, b, c) ==
    \E x \in 1..(Len(drawLog) - 2) :
        /\ drawLog[x] = [kind |-> "dispatch", cmd |-> a, type |-> CmdOf(a).type]
        /\ drawLog[x + 1] = [kind |-> "dispatch", cmd |-> b, type |-> CmdOf(b).type]
        /\ drawLog[x + 2] = [kind |-> "dispatch", cmd |-> c, type |-> CmdOf(c).type]

\* C22: the dispatch of a command of unknown type stops nothing and changes
\* nothing: the process goes on (no assertion fails), no draw call is issued
\* and no execute() runs, the pending Triangles list, the staged counts, the
\* descriptor capacity, the queues and the ambient state are as before, and
\* the sweep stands at the next command of the same sub-queue.
C22_UnknownSkipped ==
    [][UnknownDispatched =>
          /\ status' = "ok"
          /\ pc' = "sweep"
          /\ drawLog' = Append(drawLog, [kind |-> "dispatch", cmd |-> lastOp'.cmd,
                                         type |-> "UNKNOWN_COMMAND"])
          /\ UNCHANGED << queuedTriangleCommands, filledVertex, filledIndex,
                          triBatchesToDrawCapacity, gl, renderGroups,
                          commandGroupStack, isRendering >>
          /\ Len(sweeps') = Len(sweeps)
          /\ sweeps'[Len(sweeps)] = [Top EXCEPT !.i = @ + 1, !.done = Top'.done]
          /\ \A n \in 1..(Len(sweeps) - 1) : sweeps'[n] = sweeps[n]]_vars

\* an unknown command was dispatched between two quads of one material while
\* the first was staged, and the two quads went out in one draw call
C22_Witness ==
    /\ DispatchedInARow(1, 2, 3)
    /\ CmdOf(2).type = "UNKNOWN_COMMAND"
    /\ \E x \in 1..Len(drawLog) :
           /\ drawLog[x].kind = "draw"
           /\ drawLog[x].cmds = << 1, 3 >>
           /\ drawLog[x].count = 12

-----------------------------------------------------------------------------
(* The queue table during a frame (Spec) *)

\* C23: createRenderQueue called while a frame is in progress (from the
\* execute() of a Custom, Batch or Primitive command) is rejected like
\* pushGroup and popGroup: the assertion fails and the queue table is as
\* before.
C23_CreateQueueGuarded ==
    [][(lastOp'.op = "createRenderQueue" /\ isRendering) =>
          /\ status' = "assert"
          /\ renderGroups' = renderGroups]_vars

-----------------------------------------------------------------------------
(* Every Triangles command of a swept queue is drawn once (SpecCover) *)

\* the Triangles commands queue q holds
TrianglesIn(q) ==
    {c \in UNION {Range(renderGroups[q + 1].commands[g]) : g \in QUEUE_GROUP} :
        c.type = "TRIANGLES_COMMAND"}

\* the positions in the frame's events of the draw calls issued since
\* activation f began that cover command id
DrawsCovering(f, id) ==
    {x \in (f.from + 1)..Len(drawLog) :
        drawLog[x].kind = "draw" /\ id \in Range(drawLog[x].cmds)}

\* the draw call at x takes the indices of command id once, within a range
\* that is as long as the indices of the commands it covers
CoveredOnce(x, id) ==
    /\ Count(id, drawLog[x].cmds) = 1
    /\ drawLog[x].count = SceneIndexCount(drawLog[x].cmds)
    /\ drawLog[x].count >= CmdOf(id).ic

\* how many times activation f has passed command id to processRenderCommand
TimesDispatched(f, id) == Cardinality({n \in 1..Len(f.done) : f.done[n].id = id})

\* C24: with the GL view assigned, when a sweep of a queue returns every
\* Triangles command of the queue has been dispatched once by the sweep and
\* is covered by exactly one of the draw calls issued since the sweep began,
\* once within that call, and nothing is pending; and as long as the process
\* runs the staged vertex and index counts are the sums of the counts of the
\* pending commands.
C24_DrawnOncePerSweep ==
    /\ [][lastOp'.op = "finishVisit" =>
             /\ glViewAssigned
             /\ \A c \in TrianglesIn(Top.q) :
                    /\ TimesDispatched(Top, c.id) = 1
                    /\ Cardinality(DrawsCovering(Top, c.id)) = 1
                    /\ \A x \in DrawsCovering(Top, c.id) : CoveredOnce(x, c.id)
             /\ queuedTriangleCommands = << >>
             /\ queuedTriangleCommands' = << >>]_vars
    /\ [](status = "ok" =>
             /\ filledVertex = SumOver(queuedTriangleCommands, "vc")
             /\ filledIndex = SumOver(queuedTriangleCommands, "ic"))

\* queue 1 has been swept twice in one frame, for two Group commands of the
\* root queue, and its quad has been drawn by one draw call in each sweep
C24_Witness ==
    /\ lastOp.op = "finishVisit" /\ lastOp.id = 1
    /\ Len(sweeps) = 1
    /\ TrianglesIn(1) # {}
    /\ Len(SelectSeq(drawLog, LAMBDA e : e.kind = "visit")) = 2
    /\ \E c \in TrianglesIn(1) :
           Len(SelectSeq(drawLog, LAMBDA e : e.kind = "draw" /\ e.cmds = << c.id >>)) = 2

-----------------------------------------------------------------------------
(* The routing structures stay in range (Spec) *)

\* the ids of the queues of the table
IdsInTable == 0..(Len(renderGroups) - 1)

\* the step is a call of the application made outside a frame
CalledOutsideFrame ==
    /\ ~isRendering
    /\ lastOp'.op \in {"addCommand", "addCommandTo", "pushGroup", "popGroup",
                       "createRenderQueue", "render"}

\* C25: under calls made outside a frame the group stack always holds the
\* initial id 0 at its bottom and only ids of queues of the table; no call
\* reads the top of an empty stack or indexes the table with an id outside
\* it (no step of such a call or of a sweep is undefined), and a call that
\* is not accepted leaves the queues and the stack as they were.
C25_RoutingInRange ==
    /\ []((~isRendering /\ status = "ok") =>
             /\ commandGroupStack # << >>
             /\ commandGroupStack[1] = DEFAULT_RENDER_QUEUE
             /\ \A n \in 1..Len(commandGroupStack) : commandGroupStack[n] \in IdsInTable)
    /\ [][CalledOutsideFrame => status' # "ub"]_vars
    /\ [][lastOp'.op = "processRenderCommand" => status' # "ub"]_vars
    /\ [][(CalledOutsideFrame /\ status' # "ok") =>
             UNCHANGED << renderGroups, commandGroupStack >>]_vars

\* popGroup has removed the initial id and addCommand(cmd) has read the top
\* of the empty stack
EmptyStackRead ==
    /\ lastOp.op = "addCommand"
    /\ commandGroupStack = << >>
    /\ ~isRendering
    /\ status = "ub"

\* an id that is not in the table has been pushed and used by addCommand(cmd)
PushedIdOutOfRange ==
    /\ lastOp.op = "addCommand"
    /\ commandGroupStack # << >>
    /\ commandGroupStack[Len(commandGroupStack)] \notin IdsInTable
    /\ status = "ub"

\* a sweep has reached a Group command whose target is not in the table
GroupTargetOutOfRange ==
    /\ lastOp.op = "processRenderCommand"
    /\ CmdOf(lastOp.cmd).type = "GROUP_COMMAND"
    /\ CmdOf(lastOp.cmd).target \notin IdsInTable
    /\ status = "ub"

-----------------------------------------------------------------------------
(* The descriptor array is large enough (SpecGrow) *)

\* the capacities for which line 679 is checked on its own
CapacitiesChecked == 3..2000

\* line 679 enlarges the array whatever its capacity, by the factor 1.4
\* truncated or by one less
GrowthEnlarges ==
    \A c \in CapacitiesChecked :
        /\ GrowCapacity(c) > c
        /\ GrowCapacity(c) \in {(14 * c) \div 10, ((14 * c) \div 10) - 1}

\* C26: the capacity of the descriptor array is 500 after construction, never
\* decreases, changes only in an iteration that leaves as many descriptors
\* in use, plus one, as the capacity or more, and then becomes 1.4 times
\* its value truncated to an integer, which is more than before; it is kept
\* from one pass to the next; and every position written (the new or
\* extended descriptor of an iteration, position 0 at the entry of the pass)
\* or read (the descriptor before a new one, those of the draw loop) is
\* smaller than the capacity at that moment.
C26_DescriptorsWithinCapacity ==
    /\ [](triBatchesToDrawCapacity >= TriBatchesInitialCapacity)
    /\ [](scan.capacity = triBatchesToDrawCapacity)
    /\ []((pc \in {"batch", "drawn"} /\ status = "ok") =>
             /\ Len(scan.tri) = scan.batchesTotal + 1
             /\ scan.batchesTotal + 1 < triBatchesToDrawCapacity)
    /\ [][lastOp'.op = "iterate" =>
             /\ scan'.batchesTotal < triBatchesToDrawCapacity
             /\ scan'.batchesTotal \in {scan.batchesTotal, scan.batchesTotal + 1}
             /\ triBatchesToDrawCapacity' =
                    IF scan'.batchesTotal + 1 >= triBatchesToDrawCapacity
                    THEN GrowCapacity(triBatchesToDrawCapacity)
                    ELSE triBatchesToDrawCapacity]_vars
    /\ [][lastOp'.op = "draw" =>
             \A k \in 1..Len(drawLog') : k - 1 < triBatchesToDrawCapacity]_vars
    /\ [][triBatchesToDrawCapacity' >= triBatchesToDrawCapacity]_vars
    /\ [][lastOp'.op # "iterate" =>
             triBatchesToDrawCapacity' = triBatchesToDrawCapacity]_vars

\* the array has been enlarged in a pass, from 500 descriptors to 700, and the
\* pass has gone on to write the descriptor at position 500
C26_Witness ==
    /\ pc = "batch"
    /\ lastOp.op = "iterate"
    /\ scan.batchesTotal = TriBatchesInitialCapacity
    /\ Len(scan.tri) = TriBatchesInitialCapacity + 1
    /\ triBatchesToDrawCapacity = GrowCapacity(TriBatchesInitialCapacity)
    /\ triBatchesToDrawCapacity > TriBatchesInitialCapacity

\* a pass that needs 700 descriptors is over: the array was enlarged twice,
\* from 500 to 700 and from 700 to 979, and 700 draw calls were issued
EnlargedTwice ==
    /\ pc = "drawn"
    /\ Len(drawLog) = MaxGrowStaged
    /\ scan.batchesTotal + 1 = MaxGrowStaged
    /\ MaxGrowStaged >= GrowCapacity(TriBatchesInitialCapacity)
    /\ triBatchesToDrawCapacity = GrowCapacity(GrowCapacity(TriBatchesInitialCapacity))
    /\ triBatchesToDrawCapacity = 979

\* the capacity a pass left is the capacity the next pass begins with
CapacityKeptAcrossPasses ==
    /\ lastOp.op = "drawBatchedTriangles"
    /\ scan.it = 1
    /\ triBatchesToDrawCapacity > TriBatchesInitialCapacity

=============================================================================
